-------------------------- MODULE HantekDriverProofs --------------------------
(***************************************************************************)
(* The threads of the 1008C driver, proved for every number of settings    *)
(* and both acquisition modes: nothing is sent to the device while the     *)
(* loop is inside a capture, no thread is assigned over one that has not   *)
(* been joined, the device has the settings or a change is marked, and no  *)
(* roll is polled on a device that has left roll mode.                     *)
(*                                                                         *)
(* What a thread is in the middle of is a stack of steps.  A call leaves   *)
(* few of those: they are named in Stack, and an invariant says what holds *)
(* at each, whatever calls are made.  A download() is on the pipe without  *)
(* the bus, and the loop may be, too (FlushWhileStopped).                  *)
(***************************************************************************)
EXTENDS HantekDriver, SequenceTheorems, TLAPS

\* The stacks a call goes through, named <call><step>; `rest` is an autoset that
\* found nothing running.
Stack == [
  idle        |-> <<>>,
  openUp      |-> <<"bringUp", "flush", "flushing", "ready">>,
  openFlush   |-> <<"flush", "flushing", "ready">>,
  openSend    |-> <<"flushing", "ready">>,
  openReady   |-> <<"ready">>,
  closeStop   |-> <<"clear", "quieten", "joinAlive", "detach">>,
  closeWait   |-> <<"joinLoop", "quieten", "joinAlive", "detach">>,
  closeQuiet  |-> <<"quieten", "joinAlive", "detach">>,
  closeAlive  |-> <<"joinAlive", "detach">>,
  closeDetach |-> <<"detach">>,
  startJoin   |-> <<"join", "spawn", "announce">>,
  startSpawn  |-> <<"spawn", "announce">>,
  startSay    |-> <<"announce">>,
  singleJoin  |-> <<"join", "spawn", "announce", "askSingle">>,
  singleSpawn |-> <<"spawn", "announce", "askSingle">>,
  singleSay   |-> <<"announce", "askSingle">>,
  singleAsk   |-> <<"askSingle">>,
  stopClear   |-> <<"clear">>,
  stopWait    |-> <<"joinLoop">>,
  store       |-> <<"store">>,
  genChanged  |-> <<"changed">>,
  genLock     |-> <<"lockBus", "flush", "flushing", "unlockBus">>,
  genFlush    |-> <<"flush", "flushing", "unlockBus">>,
  genSend     |-> <<"flushing", "unlockBus">>,
  genUnlock   |-> <<"unlockBus">>,
  download    |-> <<"flush", "flushing">>,
  downSend    |-> <<"flushing">>,
  autoStop    |-> <<"clear", "measure", "restart">>,
  autoWait    |-> <<"joinLoop", "measure", "restart">>,
  autoMeasure |-> <<"measure", "restart">>,
  autoRescale |-> <<"rescale", "apply", "applying", "restart">>,
  autoApply   |-> <<"apply", "applying", "restart">>,
  autoSend    |-> <<"applying", "restart">>,
  autoRestart |-> <<"restart">>,
  restMeasure |-> <<"measure">>,
  restRescale |-> <<"rescale", "apply", "applying">>,
  restApply   |-> <<"apply", "applying">>,
  restSend    |-> <<"applying">>]

Labels == {"idle", "openUp", "openFlush", "openSend", "openReady", "closeStop", "closeWait",
           "closeQuiet", "closeAlive", "closeDetach", "startJoin", "startSpawn", "startSay",
           "singleJoin", "singleSpawn", "singleSay", "singleAsk", "stopClear", "stopWait",
              "store",
           "genChanged", "genLock", "genFlush", "genSend", "genUnlock", "download", "downSend",
           "autoStop", "autoWait", "autoMeasure", "autoRescale", "autoApply", "autoSend", "autoRestart", "restMeasure",
           "restRescale", "restApply", "restSend"}

\* At stack l the caller is at `step`, and m is what is left.
Fits(l, step, m) == /\ Stack[l] # <<>> /\ Head(Stack[l]) = step /\ Tail(Stack[l]) = Stack[m]

\* What the caller is at, at each of them, and what comes after it.
LEMMA StackFits ==
  /\ Stack["idle"] = <<>>
  /\ Fits("openUp", "bringUp", "openFlush") /\ Fits("openFlush", "flush", "openSend")
  /\ Fits("openSend", "flushing", "openReady") /\ Fits("openReady", "ready", "idle")
  /\ Fits("closeStop", "clear", "closeQuiet") /\ Fits("closeWait", "joinLoop", "closeQuiet")
  /\ Fits("closeQuiet", "quieten", "closeAlive") /\ Fits("closeAlive", "joinAlive",
     "closeDetach")
  /\ Fits("closeDetach", "detach", "idle")
  /\ Fits("startJoin", "join", "startSpawn") /\ Fits("startSpawn", "spawn", "startSay")
  /\ Fits("startSay", "announce", "idle")
  /\ Fits("singleJoin", "join", "singleSpawn") /\ Fits("singleSpawn", "spawn", "singleSay")
  /\ Fits("singleSay", "announce", "singleAsk") /\ Fits("singleAsk", "askSingle", "idle")
  /\ Fits("stopClear", "clear", "idle") /\ Fits("stopWait", "joinLoop", "idle")
  /\ Fits("store", "store", "idle") /\ Fits("genChanged", "changed", "idle")
  /\ Fits("genLock", "lockBus", "genFlush") /\ Fits("genFlush", "flush", "genSend")
  /\ Fits("genSend", "flushing", "genUnlock") /\ Fits("genUnlock", "unlockBus", "idle")
  /\ Fits("download", "flush", "downSend") /\ Fits("downSend", "flushing", "idle")
  /\ Fits("autoStop", "clear", "autoMeasure") /\ Fits("autoWait", "joinLoop", "autoMeasure")
  /\ Fits("autoMeasure", "measure", "autoRestart")
  /\ Fits("autoRescale", "rescale", "autoApply") /\ Fits("autoApply", "apply", "autoSend")
  /\ Fits("autoSend", "applying", "autoRestart") /\ Fits("autoRestart", "restart", "idle")
  /\ Fits("restMeasure", "measure", "idle") /\ Fits("restRescale", "rescale", "restApply")
  /\ Fits("restApply", "apply", "restSend") /\ Fits("restSend", "applying", "idle")
<1>1. /\ Fits("openUp", "bringUp", "openFlush") /\ Fits("openFlush", "flush", "openSend")
      /\ Fits("openSend", "flushing", "openReady") /\ Fits("openReady", "ready", "idle")
      /\ Fits("closeStop", "clear", "closeQuiet") /\ Fits("closeWait", "joinLoop", "closeQuiet")
  BY SMTT(30) DEF Stack, Fits
<1>2. /\ Fits("closeQuiet", "quieten", "closeAlive") /\ Fits("closeAlive", "joinAlive", "closeDetach")
      /\ Fits("closeDetach", "detach", "idle") /\ Fits("startJoin", "join", "startSpawn")
      /\ Fits("startSpawn", "spawn", "startSay") /\ Fits("startSay", "announce", "idle")
  BY SMTT(30) DEF Stack, Fits
<1>3. /\ Fits("singleJoin", "join", "singleSpawn") /\ Fits("singleSpawn", "spawn", "singleSay")
      /\ Fits("singleSay", "announce", "singleAsk") /\ Fits("singleAsk", "askSingle", "idle")
      /\ Fits("stopClear", "clear", "idle") /\ Fits("stopWait", "joinLoop", "idle")
  BY SMTT(30) DEF Stack, Fits
<1>4. /\ Fits("store", "store", "idle") /\ Fits("genChanged", "changed", "idle")
      /\ Fits("genLock", "lockBus", "genFlush") /\ Fits("genFlush", "flush", "genSend")
      /\ Fits("genSend", "flushing", "genUnlock") /\ Fits("genUnlock", "unlockBus", "idle")
  BY SMTT(30) DEF Stack, Fits
<1>5. /\ Fits("autoStop", "clear", "autoMeasure") /\ Fits("autoWait", "joinLoop", "autoMeasure")
      /\ Fits("autoMeasure", "measure", "autoRestart") /\ Fits("autoRescale", "rescale", "autoApply")
      /\ Fits("autoApply", "apply", "autoSend") /\ Fits("autoSend", "applying", "autoRestart")
  BY SMTT(30) DEF Stack, Fits
<1>6. /\ Fits("autoRestart", "restart", "idle") /\ Fits("restMeasure", "measure", "idle")
      /\ Fits("restRescale", "rescale", "restApply") /\ Fits("restApply", "apply", "restSend")
      /\ Fits("restSend", "applying", "idle")
  BY SMTT(30) DEF Stack, Fits
<1>7. Fits("download", "flush", "downSend") /\ Fits("downSend", "flushing", "idle")
  BY SMTT(30) DEF Stack, Fits
<1>8. Stack["idle"] = <<>>
  BY DEF Stack
<1> QED
  BY <1>1, <1>2, <1>3, <1>4, <1>5, <1>6, <1>7, <1>8, Zenon

\* The steps of every call are steps.
LEMMA StackTyped == \A l \in Labels : Stack[l] \in Seq(Steps)
<1> DEFINE T(l) == Stack[l] \in Seq(Steps)
<1>1. /\ T("idle") /\ T("openUp") /\ T("openFlush") /\ T("openSend") /\ T("openReady")
      /\ T("closeStop") /\ T("closeWait") /\ T("closeQuiet") /\ T("closeAlive")
  BY DEF Stack, Steps
<1>2. /\ T("closeDetach") /\ T("startJoin") /\ T("startSpawn") /\ T("startSay") /\ T("singleJoin")
      /\ T("singleSpawn") /\ T("singleSay") /\ T("singleAsk") /\ T("stopClear")
  BY DEF Stack, Steps
<1>3. /\ T("stopWait") /\ T("store") /\ T("genChanged") /\ T("genLock") /\ T("genFlush")
      /\ T("genSend") /\ T("genUnlock") /\ T("autoStop") /\ T("autoWait")
  BY DEF Stack, Steps
<1>4. /\ T("autoMeasure") /\ T("autoRescale") /\ T("autoApply") /\ T("autoSend") /\ T("autoRestart")
      /\ T("restMeasure") /\ T("restRescale") /\ T("restApply") /\ T("restSend")
  BY DEF Stack, Steps
<1>5. T("download") /\ T("downSend")
  BY DEF Stack, Steps
<1> HIDE DEF T
<1>6. \A l \in Labels : T(l)
  BY <1>1, <1>2, <1>3, <1>4, <1>5 DEF Labels
<1>7. QED
  BY <1>6 DEF T

\* ... and the other way round: the stacks a caller at a step may have.
LEMMA StackAt ==
  ASSUME NEW l \in Labels, Stack[l] # <<>>
  PROVE
  /\ Head(Stack[l]) = "bringUp" => l \in {"openUp"}
  /\ Head(Stack[l]) = "ready" => l \in {"openReady"}
  /\ Head(Stack[l]) = "flush" => l \in {"openFlush", "genFlush", "download"}
  /\ Head(Stack[l]) = "flushing" => l \in {"openSend", "genSend", "downSend"}
  /\ Head(Stack[l]) = "clear" => l \in {"closeStop", "stopClear", "autoStop"}
  /\ Head(Stack[l]) = "joinLoop" => l \in {"closeWait", "stopWait", "autoWait"}
  /\ Head(Stack[l]) = "quieten" => l \in {"closeQuiet"}
  /\ Head(Stack[l]) = "joinAlive" => l \in {"closeAlive"}
  /\ Head(Stack[l]) = "detach" => l \in {"closeDetach"}
  /\ Head(Stack[l]) = "join" => l \in {"startJoin", "singleJoin"}
  /\ Head(Stack[l]) = "spawn" => l \in {"startSpawn", "singleSpawn"}
  /\ Head(Stack[l]) = "announce" => l \in {"startSay", "singleSay"}
  /\ Head(Stack[l]) = "askSingle" => l \in {"singleAsk"}
  /\ Head(Stack[l]) = "store" => l \in {"store"}
  /\ Head(Stack[l]) = "changed" => l \in {"genChanged"}
  /\ Head(Stack[l]) = "lockBus" => l \in {"genLock"}
  /\ Head(Stack[l]) = "unlockBus" => l \in {"genUnlock"}
  /\ Head(Stack[l]) = "measure" => l \in {"autoMeasure", "restMeasure"}
  /\ Head(Stack[l]) = "rescale" => l \in {"autoRescale", "restRescale"}
  /\ Head(Stack[l]) = "apply" => l \in {"autoApply", "restApply"}
  /\ Head(Stack[l]) = "applying" => l \in {"autoSend", "restSend"}
  /\ Head(Stack[l]) = "restart" => l \in {"autoRestart"}
<1>1. Head(Stack[l]) = "bringUp" => l \in {"openUp"}
  BY StackFits DEF Fits, Labels
<1>2. Head(Stack[l]) = "ready" => l \in {"openReady"}
  BY StackFits DEF Fits, Labels
<1>3. Head(Stack[l]) = "flush" => l \in {"openFlush", "genFlush", "download"}
  BY StackFits DEF Fits, Labels
<1>4. Head(Stack[l]) = "flushing" => l \in {"openSend", "genSend", "downSend"}
  BY StackFits DEF Fits, Labels
<1>5. Head(Stack[l]) = "clear" => l \in {"closeStop", "stopClear", "autoStop"}
  BY StackFits DEF Fits, Labels
<1>6. Head(Stack[l]) = "joinLoop" => l \in {"closeWait", "stopWait", "autoWait"}
  BY StackFits DEF Fits, Labels
<1>7. Head(Stack[l]) = "quieten" => l \in {"closeQuiet"}
  BY StackFits DEF Fits, Labels
<1>8. Head(Stack[l]) = "joinAlive" => l \in {"closeAlive"}
  BY StackFits DEF Fits, Labels
<1>9. Head(Stack[l]) = "detach" => l \in {"closeDetach"}
  BY StackFits DEF Fits, Labels
<1>10. Head(Stack[l]) = "join" => l \in {"startJoin", "singleJoin"}
  BY StackFits DEF Fits, Labels
<1>11. Head(Stack[l]) = "spawn" => l \in {"startSpawn", "singleSpawn"}
  BY StackFits DEF Fits, Labels
<1>12. Head(Stack[l]) = "announce" => l \in {"startSay", "singleSay"}
  BY StackFits DEF Fits, Labels
<1>13. Head(Stack[l]) = "askSingle" => l \in {"singleAsk"}
  BY StackFits DEF Fits, Labels
<1>14. Head(Stack[l]) = "store" => l \in {"store"}
  BY StackFits DEF Fits, Labels
<1>15. Head(Stack[l]) = "changed" => l \in {"genChanged"}
  BY StackFits DEF Fits, Labels
<1>16. Head(Stack[l]) = "lockBus" => l \in {"genLock"}
  BY StackFits DEF Fits, Labels
<1>17. Head(Stack[l]) = "unlockBus" => l \in {"genUnlock"}
  BY StackFits DEF Fits, Labels
<1>18. Head(Stack[l]) = "measure" => l \in {"autoMeasure", "restMeasure"}
  BY StackFits DEF Fits, Labels
<1>19. Head(Stack[l]) = "rescale" => l \in {"autoRescale", "restRescale"}
  BY StackFits DEF Fits, Labels
<1>20. Head(Stack[l]) = "apply" => l \in {"autoApply", "restApply"}
  BY StackFits DEF Fits, Labels
<1>21. Head(Stack[l]) = "applying" => l \in {"autoSend", "restSend"}
  BY StackFits DEF Fits, Labels
<1>22. Head(Stack[l]) = "restart" => l \in {"autoRestart"}
  BY StackFits DEF Fits, Labels
<1>23. QED
  BY <1>1, <1>2, <1>3, <1>4, <1>5, <1>6, <1>7, <1>8, <1>9, <1>10, <1>11, <1>12, <1>13, <1>14,
     <1>15, <1>16, <1>17, <1>18, <1>19, <1>20, <1>21, <1>22

\* Two sequences put together, told by their lengths and their elements.
LEMMA ConcatIs ==
  ASSUME NEW S, NEW s \in Seq(S), NEW t \in Seq(S), NEW r \in Seq(S), Len(r) = Len(s) + Len(t),
         \A i \in 1 .. Len(s) : r[i] = s[i],
         \A i \in 1 .. Len(t) : r[Len(s) + i] = t[i]
  PROVE  s \o t = r
<1>1. /\ s \o t \in Seq(S) /\ Len(s \o t) = Len(s) + Len(t)
      /\ \A i \in 1 .. Len(s) + Len(t) :
           (s \o t)[i] = IF i <= Len(s) THEN s[i] ELSE t[i - Len(s)]
  BY ConcatProperties
<1>2. Len(s) \in Nat /\ Len(t) \in Nat
  BY LenProperties
<1>3. ASSUME NEW i \in 1 .. Len(r) PROVE (s \o t)[i] = r[i]
  <2>1. CASE i <= Len(s)
    BY <1>1, <1>2, <2>1
  <2>2. CASE i > Len(s)
    <3> DEFINE j == i - Len(s)
    <3>1. j \in 1 .. Len(t) /\ Len(s) + j = i
      BY <1>2, <2>2
    <3>2. (s \o t)[i] = t[j]
      BY <1>1, <1>2, <2>2
    <3> HIDE DEF j
    <3>3. r[Len(s) + j] = t[j]
      BY <3>1
    <3>4. QED
      BY <3>1, <3>2, <3>3
  <2>3. QED
    BY <2>1, <2>2, <1>2
<1>4. QED
  BY <1>1, <1>3, SeqEqual

\* A sequence is its head before its tail.
LEMMA PutOne ==
  ASSUME NEW S, NEW r \in Seq(S), r # <<>>
  PROVE  <<Head(r)>> \o Tail(r) = r
<1>1. /\ Head(r) \in S /\ Tail(r) \in Seq(S) /\ Len(Tail(r)) = Len(r) - 1 /\ Head(r) = r[1]
      /\ \A i \in 1 .. Len(Tail(r)) : Tail(r)[i] = r[i + 1]
  BY HeadTailProperties
<1> DEFINE s == <<Head(r)>>
<1>2. s \in Seq(S) /\ Len(s) = 1 /\ s[1] = r[1]
  BY <1>1
<1>3. Len(r) \in Nat
  BY LenProperties
<1> HIDE DEF s
<1>4. \A i \in 1 .. Len(s) : r[i] = s[i]
  BY <1>2
<1>5. \A i \in 1 .. Len(Tail(r)) : r[Len(s) + i] = Tail(r)[i]
  <2>1. \A i \in 1 .. Len(Tail(r)) : i + 1 = 1 + i
    BY <1>1, <1>3
  <2>2. QED
    BY <1>1, <1>2, <2>1
<1>6. Len(r) = Len(s) + Len(Tail(r))
  BY <1>1, <1>2, <1>3
<1>7. s \o Tail(r) = r
  BY <1>1, <1>2, <1>4, <1>5, <1>6, ConcatIs
<1>8. QED
  BY <1>7 DEF s

\* Three steps before a fourth.
LEMMA PutThree ==
  ASSUME NEW S, NEW a \in S, NEW b \in S, NEW c \in S, NEW d \in S
  PROVE  <<a, b, c>> \o <<d>> = <<a, b, c, d>>
<1> DEFINE s == <<a, b, c>>
           t == <<d>>
           r == <<a, b, c, d>>
<1>1. s \in Seq(S) /\ t \in Seq(S) /\ r \in Seq(S)
  OBVIOUS
<1>2. Len(s) = 3 /\ Len(t) = 1 /\ Len(r) = 4
  OBVIOUS
<1>3. s[1] = r[1] /\ s[2] = r[2] /\ s[3] = r[3] /\ t[1] = r[4]
  OBVIOUS
<1> HIDE DEF s, t, r
<1>4. \A i \in 1 .. Len(s) : r[i] = s[i]
  <2>1. \A i \in 1 .. 3 : i = 1 \/ i = 2 \/ i = 3
    OBVIOUS
  <2>2. QED
    BY <1>2, <1>3, <2>1
<1>5. \A i \in 1 .. Len(t) : r[Len(s) + i] = t[i]
  BY <1>2, <1>3
<1>6. Len(r) = Len(s) + Len(t)
  BY <1>2
<1>7. s \o t = r
  BY <1>1, <1>4, <1>5, <1>6, ConcatIs
<1>8. QED
  BY <1>7 DEF s, t, r

\* The stacks the plans and the steps put together are among those named.
LEMMA Plans ==
  /\ OpenPlan = Stack["openUp"] /\ ClosePlan = Stack["closeStop"]
  /\ StartPlan = IF running THEN Stack["idle"] ELSE Stack["startJoin"]
  /\ SinglePlan = IF running THEN Stack["singleAsk"] ELSE Stack["singleJoin"]
  /\ AutosetPlan = IF running THEN Stack["autoStop"] ELSE Stack["restMeasure"]
  /\ <<"lockBus">> \o FlushPlan \o <<"unlockBus">> = Stack["genLock"]
  /\ FlushPlan = Stack["download"]
<1>1. /\ "bringUp" \in Steps /\ "flush" \in Steps /\ "flushing" \in Steps /\ "ready" \in Steps
      /\ "lockBus" \in Steps /\ "unlockBus" \in Steps /\ "join" \in Steps /\ "spawn" \in Steps
      /\ "announce" \in Steps /\ "askSingle" \in Steps
  BY DEF Steps
<1>2. ASSUME NEW a \in Steps, NEW b \in Steps, NEW c \in Steps
      PROVE  <<a>> \o <<b, c>> = <<a, b, c>>
  <2> DEFINE r == <<a, b, c>>
  <2>1. r \in Seq(Steps) /\ r # <<>> /\ Head(r) = a /\ Tail(r) = <<b, c>>
    OBVIOUS
  <2> HIDE DEF r
  <2>2. <<Head(r)>> \o Tail(r) = r
    BY <2>1, PutOne
  <2>3. <<a>> \o <<b, c>> = r
    BY <2>1, <2>2
  <2>4. QED
    BY <2>3 DEF r
<1>3. OpenPlan = Stack["openUp"]
  <2>1. <<"bringUp">> \o <<"flush", "flushing">> = <<"bringUp", "flush", "flushing">>
    BY <1>1, <1>2
  <2>2. <<"bringUp", "flush", "flushing">> \o <<"ready">>
          = <<"bringUp", "flush", "flushing", "ready">>
    BY <1>1, PutThree
  <2>3. QED
    BY <2>1, <2>2 DEF OpenPlan, FlushPlan, Stack
<1>4. <<"lockBus">> \o FlushPlan \o <<"unlockBus">> = Stack["genLock"]
  <2>1. <<"lockBus">> \o <<"flush", "flushing">> = <<"lockBus", "flush", "flushing">>
    BY <1>1, <1>2
  <2>2. <<"lockBus", "flush", "flushing">> \o <<"unlockBus">>
          = <<"lockBus", "flush", "flushing", "unlockBus">>
    BY <1>1, PutThree
  <2>3. QED
    BY <2>1, <2>2 DEF FlushPlan, Stack
<1>5. SinglePlan = IF running THEN Stack["singleAsk"] ELSE Stack["singleJoin"]
  <2>1. <<"join", "spawn", "announce">> \o <<"askSingle">>
          = <<"join", "spawn", "announce", "askSingle">>
    BY <1>1, PutThree
  <2>2. <<"askSingle">> \in Seq(Steps)
    BY <1>1
  <2>3. <<>> \o <<"askSingle">> = <<"askSingle">>
    BY <2>2, ConcatEmptySeq
  <2>4. QED
    BY <2>1, <2>3 DEF SinglePlan, StartPlan, Stack
<1>6. QED
  BY <1>3, <1>4, <1>5 DEF ClosePlan, StartPlan, AutosetPlan, FlushPlan, Stack

\* Those that something is followed by.
LEMMA Named ==
  /\ "idle" \in Labels /\ "openFlush" \in Labels /\ "openSend" \in Labels
  /\ "openReady" \in Labels /\ "closeWait" \in Labels /\ "closeQuiet" \in Labels
  /\ "closeAlive" \in Labels /\ "closeDetach" \in Labels /\ "startJoin" \in Labels
  /\ "startSpawn" \in Labels /\ "startSay" \in Labels /\ "singleSpawn" \in Labels
  /\ "singleSay" \in Labels /\ "singleAsk" \in Labels /\ "stopWait" \in Labels
  /\ "genLock" \in Labels /\ "genFlush" \in Labels /\ "genSend" \in Labels
  /\ "genUnlock" \in Labels /\ "downSend" \in Labels /\ "autoWait" \in Labels /\ "autoMeasure" \in Labels
  /\ "autoRescale" \in Labels /\ "autoApply" \in Labels /\ "autoSend" \in Labels
  /\ "autoRestart" \in Labels /\ "restRescale" \in Labels /\ "restApply" \in Labels
  /\ "restSend" \in Labels
  BY DEF Labels

\* What a step makes of the stack: nothing is added to what is left, ...
LEMMA ThenNothing ==
  ASSUME NEW l \in Labels, NEW m \in Labels, NEW s,
         ui = Stack[l], Fits(l, s, m), Then(<<>>)
  PROVE  ui' = Stack[m]
<1>1. Stack[m] \in Seq(Steps) /\ Tail(ui) = Stack[m]
  BY StackTyped DEF Fits
<1>2. QED
  BY <1>1, ConcatEmptySeq DEF Then

\* ... or one step ...
LEMMA ThenOne ==
  ASSUME NEW l \in Labels, NEW m \in Labels, NEW w \in Labels, NEW s, NEW step,
         ui = Stack[l], Fits(l, s, m), Fits(w, step, m), Then(<<step>>)
  PROVE  ui' = Stack[w]
<1>1. <<Head(Stack[w])>> \o Tail(Stack[w]) = Stack[w]
  BY StackTyped, PutOne DEF Fits
<1>2. QED
  BY <1>1 DEF Then, Fits

\* ... or, with nothing left, a stack that is in the table.
LEMMA ThenAll ==
  ASSUME NEW l \in Labels, NEW w \in Labels, NEW s, NEW steps,
         ui = Stack[l], Fits(l, s, "idle"), steps = Stack[w], Then(steps)
  PROVE  ui' = Stack[w]
<1>1. Stack[w] \o <<>> = Stack[w]
  BY StackTyped, ConcatEmptySeq
<1>2. QED
  BY <1>1, StackFits DEF Then, Fits

-----------------------------------------------------------------------------
\* The inductive invariant.  The bus: a turn of the loop and a ping hold it, and
\* so does the generator's caller while it sends.
InLoop == {"flush", "flushing", "look", "apply", "applying", "roll", "startRoll", "snapshot",
           "capture", "header", "check"}
Typed  == /\ acq \in InLoop \cup {"off", "loop", "takeBus", "retire", "last"}
          /\ alive \in {"off", "look", "takeBus", "ping"}
BusInv == /\ acq \in InLoop => busLock = "acq"
          /\ alive = "ping" => busLock = "alive"

\* The thread exists for as long as it has something to do.
ThreadInv == (thread = "live" => acq # "off") /\ (acq # "off" => thread = "live")

\* Roll mode has been started on the device, and nothing has reconfigured it since.
RollInv == mode = "Streaming" =>
  /\ acq \in {"snapshot", "capture"} => rolling
  /\ modeStarted /\ acq \in InLoop \cup {"loop", "takeBus"} => rolling

\* The device has the settings, or a change is marked, or a transfer failed.
SyncInv == ~cfgDirty => devCfg \in {cfg, Mixed}

\* What a call relies on, at each of the stacks it goes through.  Waiting: it waits
\* for a loop to end.  Halted: nothing runs, nor will before the call ends.
Closed  == {"idle", "openUp", "store", "stopClear"}
Waiting == {"closeWait", "stopWait", "autoWait"}
Halted  == {"openFlush", "openSend", "openReady", "closeQuiet", "closeAlive", "closeDetach",
            "autoMeasure", "autoRescale", "autoApply", "autoSend", "autoRestart", "restMeasure",
            "restRescale", "restApply", "restSend"}
Joined  == {"closeQuiet", "closeAlive", "closeDetach", "startSpawn", "singleSpawn"}
Locked  == {"genFlush", "genSend", "genUnlock"}

CallInv(l) ==
  /\ ui = Stack[l]
  /\ ~opened => /\ acq = "off" /\ thread = "none" /\ ~running
                /\ alive = "off" /\ ~aliveOn /\ l \in Closed
  /\ l = "openUp" => ~opened
  /\ l \in Waiting \/ running \/ acq \in {"last", "off"}
  /\ l \in Halted \cup Waiting => ~running
  /\ l \in Joined => thread = "none"
  /\ l \in {"closeAlive", "closeDetach"} => ~aliveOn
  /\ l = "closeDetach" => alive = "off"
  /\ l \in Locked => busLock = "ui"

OthersInv == Typed /\ BusInv /\ ThreadInv /\ RollInv /\ SyncInv
DriverInv == OthersInv /\ \E l \in Labels : CallInv(l)

\* Nothing runs when a driver is created.
LEMMA DriverInvInit == Init => DriverInv
<1> SUFFICES ASSUME Init PROVE DriverInv
  OBVIOUS
<1>1. OthersInv
  BY DEF Init, OthersInv, Typed, BusInv, ThreadInv, RollInv, SyncInv, InLoop
<1>2. "idle" \in Labels /\ CallInv("idle")
  BY StackFits DEF Init, CallInv, Labels, Closed, Waiting, Halted, Joined, Locked
<1>3. QED
  BY <1>1, <1>2 DEF DriverInv

\* Which call begins, and with what.
LEMMA Begins ==
  ASSUME DriverInv, BeginCall
  PROVE  DriverInv'
<1>1. PICK l \in Labels : CallInv(l)
  BY DEF DriverInv
<1>2. l = "idle"
  BY <1>1, StackFits DEF BeginCall, CallInv, Labels, Fits
<1>3. PICK call \in Calls : Allowed[call] /\ ui' = Plan[call]
  BY DEF BeginCall
<1>4. \E m \in {"openUp", "closeStop", "startJoin", "singleAsk", "singleJoin", "stopClear",
      "store",
                "genChanged", "download", "autoStop", "restMeasure"} :
        /\ ui' = Stack[m]
        /\ m = "openUp" => ~opened
        /\ m \notin Closed => opened
        /\ m = "restMeasure" => ~running
  <2>1. call \in AllCalls
    BY DriverAssumption
  <2>2. CASE call = "open"
    BY <1>3, <2>2, Plans DEF Plan, Allowed, Closed
  <2>3. CASE call = "close"
    BY <1>3, <2>3, Plans DEF Plan, Allowed, Closed
  <2>4. CASE call = "start"
    BY <1>3, <2>4, Plans DEF Plan, Allowed, Closed
  <2>5. CASE call = "single"
    BY <1>3, <2>5, Plans DEF Plan, Allowed, Closed
  <2>6. CASE call = "stop"
    BY <1>3, <2>6 DEF Plan, Allowed, Closed, Stack
  <2>7. CASE call = "apply"
    BY <1>3, <2>7 DEF Plan, Allowed, Closed, Stack
  <2>8. CASE call = "generator"
    BY <1>3, <2>8 DEF Plan, Allowed, Closed, Stack
  <2>9. CASE call = "autoset"
    BY <1>3, <2>9, Plans DEF Plan, Allowed, Closed
  <2>10. CASE call = "download"
    BY <1>3, <2>10, Plans DEF Plan, Allowed, Closed
  <2>11. QED
    BY <2>1, <2>2, <2>3, <2>4, <2>5, <2>6, <2>7, <2>8, <2>9, <2>10 DEF AllCalls
<1>5. PICK m \in {"openUp", "closeStop", "startJoin", "singleAsk", "singleJoin", "stopClear",
                  "store", "genChanged", "download", "autoStop", "restMeasure"} :
        /\ ui' = Stack[m]
        /\ m = "openUp" => ~opened
        /\ m \notin Closed => opened
        /\ m = "restMeasure" => ~running
  BY <1>4
<1>6. UNCHANGED <<opened, running, thread, acq, alive, aliveOn, busLock, mode, rolling,
                  modeStarted, cfgDirty, devCfg, cfg>>
  BY DEF BeginCall, core, settings, device, shot, locks, loop, pinging
<1>7. OthersInv'
  BY <1>6 DEF DriverInv, OthersInv, Typed, BusInv, ThreadInv, RollInv, SyncInv
<1>8. m \in Labels /\ CallInv(m)'
  BY <1>1, <1>2, <1>5, <1>6 DEF CallInv, Labels, Closed, Waiting, Halted, Joined, Locked
<1>9. QED
  BY <1>7, <1>8 DEF DriverInv

-----------------------------------------------------------------------------
\* The step a caller takes leaves it at another stack of the table, where what
\* that stack relies on holds.  One lemma for each group of the caller's steps;
\* each step says which stacks the caller may have, and what is left of each.

\* The steps of opening the device.
LEMMA OpeningSteps ==
  ASSUME DriverInv, Opening PROVE DriverInv'
<1> USE DEF core, settings, device, shot, locks, loop, pinging, Free
<1>1. PICK l \in Labels : CallInv(l)
  BY DEF DriverInv
<1>2. Typed /\ BusInv /\ ThreadInv /\ RollInv /\ SyncInv
  BY DEF DriverInv, OthersInv
<1>3. SUFFICES OthersInv' /\ \E m \in Labels : CallInv(m)'
  BY DEF DriverInv
<1>4. CASE BringUp
  <2>1. l = "openUp"
    BY <1>1, <1>4, StackAt DEF BringUp, At, CallInv
  <2>2. OthersInv'
    BY <1>1, <1>2, <1>4, <2>1
      DEF BringUp, OthersInv, Typed, BusInv, ThreadInv, RollInv, SyncInv, InLoop, CallInv,
          Labels, Closed, Waiting, Halted, Joined, Locked
  <2>3. CASE Then(<<>>) /\ opened'
    <3>1. ui' = Stack["openFlush"]
      BY <1>1, <2>1, <2>3, StackFits, Named, ThenNothing DEF CallInv
    <3>2. CallInv("openFlush")'
      BY <1>1, <1>2, <1>4, <2>1, <2>3, <3>1
        DEF BringUp, OthersInv, Typed, BusInv, ThreadInv, RollInv, SyncInv, InLoop, CallInv,
            Labels, Closed, Waiting, Halted, Joined, Locked
    <3>3. QED
      BY <2>2, <3>2, Named
  <2>4. CASE Fails /\ UNCHANGED <<opened, alive, aliveOn>>
    <3>1. ui' = Stack["idle"]
      BY <2>4, StackFits DEF Fails
    <3>2. CallInv("idle")'
      BY <1>1, <1>2, <1>4, <2>1, <2>4, <3>1
        DEF BringUp, OthersInv, Typed, BusInv, ThreadInv, RollInv, SyncInv, InLoop, CallInv,
            Labels, Closed, Waiting, Halted, Joined, Locked
    <3>3. QED
      BY <2>2, <3>2, Named
  <2>5. QED
    BY <1>4, <2>3, <2>4 DEF BringUp
<1>5. CASE Ready
  <2>1. l = "openReady"
    BY <1>1, <1>5, StackAt DEF Ready, At, CallInv
  <2>2. ui' = Stack["idle"]
    BY <1>1, <1>5, <2>1, StackFits, Named, ThenNothing DEF Ready, CallInv
  <2>3. OthersInv'
    BY <1>1, <1>2, <1>5, <2>1
      DEF Ready, OthersInv, Typed, BusInv, ThreadInv, RollInv, SyncInv, InLoop, CallInv,
          Labels, Closed, Waiting, Halted, Joined, Locked
  <2>4. CallInv("idle")'
    BY <1>1, <1>2, <1>5, <2>1, <2>2
      DEF Ready, OthersInv, Typed, BusInv, ThreadInv, RollInv, SyncInv, InLoop, CallInv,
          Labels, Closed, Waiting, Halted, Joined, Locked
  <2>5. QED
    BY <2>3, <2>4, Named
<1>6. QED
  BY <1>4, <1>5 DEF Opening

\* The steps of the generator and the settings.
LEMMA SendingSteps ==
  ASSUME DriverInv, Sending PROVE DriverInv'
<1> USE DEF core, settings, device, shot, locks, loop, pinging, Free
<1>1. PICK l \in Labels : CallInv(l)
  BY DEF DriverInv
<1>2. Typed /\ BusInv /\ ThreadInv /\ RollInv /\ SyncInv
  BY DEF DriverInv, OthersInv
<1>3. SUFFICES OthersInv' /\ \E m \in Labels : CallInv(m)'
  BY DEF DriverInv
<1>4. CASE Flush
  <2>1. l \in {"openFlush", "genFlush", "download"}
    BY <1>1, <1>4, StackAt DEF Flush, At, CallInv
  <2>2. OthersInv'
    BY <1>1, <1>2, <1>4, <2>1
      DEF Flush, OthersInv, Typed, BusInv, ThreadInv, RollInv, SyncInv, InLoop, CallInv,
          Labels, Closed, Waiting, Halted, Joined, Locked
  <2>3. CASE l = "openFlush"
    <3>1. ui' = Stack["openSend"]
      BY <1>1, <1>4, <2>3, StackFits, Named, ThenNothing DEF Flush, CallInv
    <3>2. CallInv("openSend")'
      BY <1>1, <1>2, <1>4, <2>3, <3>1
        DEF Flush, OthersInv, Typed, BusInv, ThreadInv, RollInv, SyncInv, InLoop, CallInv,
            Labels, Closed, Waiting, Halted, Joined, Locked
    <3>3. QED
      BY <2>2, <3>2, Named
  <2>4. CASE l = "genFlush"
    <3>1. ui' = Stack["genSend"]
      BY <1>1, <1>4, <2>4, StackFits, Named, ThenNothing DEF Flush, CallInv
    <3>2. CallInv("genSend")'
      BY <1>1, <1>2, <1>4, <2>4, <3>1
        DEF Flush, OthersInv, Typed, BusInv, ThreadInv, RollInv, SyncInv, InLoop, CallInv,
            Labels, Closed, Waiting, Halted, Joined, Locked
    <3>3. QED
      BY <2>2, <3>2, Named
  <2>5. CASE l = "download"
    <3>1. ui' = Stack["downSend"]
      BY <1>1, <1>4, <2>5, StackFits, Named, ThenNothing DEF Flush, CallInv
    <3>2. CallInv("downSend")'
      BY <1>1, <1>2, <1>4, <2>5, <3>1
        DEF Flush, OthersInv, Typed, BusInv, ThreadInv, RollInv, SyncInv, InLoop, CallInv,
            Labels, Closed, Waiting, Halted, Joined, Locked
    <3>3. QED
      BY <2>2, <3>2, Named
  <2>6. QED
    BY <2>1, <2>3, <2>4, <2>5
<1>5. CASE Flushed
  <2>1. l \in {"openSend", "genSend", "downSend"}
    BY <1>1, <1>5, StackAt DEF Flushed, At, CallInv
  <2>2. OthersInv'
    BY <1>1, <1>2, <1>5, <2>1
      DEF Flushed, OthersInv, Typed, BusInv, ThreadInv, RollInv, SyncInv, InLoop, CallInv,
          Labels, Closed, Waiting, Halted, Joined, Locked
  <2>3. CASE l = "openSend"
    <3>1. ui' = Stack["openReady"]
      BY <1>1, <1>5, <2>3, StackFits, Named, ThenNothing DEF Flushed, CallInv
    <3>2. CallInv("openReady")'
      BY <1>1, <1>2, <1>5, <2>3, <3>1
        DEF Flushed, OthersInv, Typed, BusInv, ThreadInv, RollInv, SyncInv, InLoop, CallInv,
            Labels, Closed, Waiting, Halted, Joined, Locked
    <3>3. QED
      BY <2>2, <3>2, Named
  <2>4. CASE l = "genSend"
    <3>1. ui' = Stack["genUnlock"]
      BY <1>1, <1>5, <2>4, StackFits, Named, ThenNothing DEF Flushed, CallInv
    <3>2. CallInv("genUnlock")'
      BY <1>1, <1>2, <1>5, <2>4, <3>1
        DEF Flushed, OthersInv, Typed, BusInv, ThreadInv, RollInv, SyncInv, InLoop, CallInv,
            Labels, Closed, Waiting, Halted, Joined, Locked
    <3>3. QED
      BY <2>2, <3>2, Named
  <2>5. CASE l = "downSend"
    <3>1. ui' = Stack["idle"]
      BY <1>1, <1>5, <2>5, StackFits, Named, ThenNothing DEF Flushed, CallInv
    <3>2. CallInv("idle")'
      BY <1>1, <1>2, <1>5, <2>5, <3>1
        DEF Flushed, OthersInv, Typed, BusInv, ThreadInv, RollInv, SyncInv, InLoop, CallInv,
            Labels, Closed, Waiting, Halted, Joined, Locked
    <3>3. QED
      BY <2>2, <3>2, Named
  <2>6. QED
    BY <2>1, <2>3, <2>4, <2>5
<1>6. CASE GeneratorChanged
  <2>1. l = "genChanged" /\ opened
    BY <1>1, <1>6, StackAt DEF GeneratorChanged, At, CallInv, Closed
  <2>2. OthersInv'
    BY <1>1, <1>2, <1>6, <2>1
      DEF GeneratorChanged, OthersInv, Typed, BusInv, ThreadInv, RollInv, SyncInv, InLoop,
          CallInv, Labels, Closed, Waiting, Halted, Joined, Locked
  <2>3. CASE running
    <3>1. ui' = Stack["idle"]
      BY <1>1, <1>6, <2>1, <2>3, StackFits, Named, ThenNothing DEF GeneratorChanged, CallInv
    <3>2. CallInv("idle")'
      BY <1>1, <1>2, <1>6, <2>1, <3>1
        DEF GeneratorChanged, OthersInv, Typed, BusInv, ThreadInv, RollInv, SyncInv, InLoop,
            CallInv, Labels, Closed, Waiting, Halted, Joined, Locked
    <3>3. QED
      BY <2>2, <3>2, Named
  <2>4. CASE ~running
    <3>1. Then(Stack["genLock"])
      BY <1>6, <2>1, <2>4, Plans DEF GeneratorChanged
    <3>2. ui' = Stack["genLock"]
      BY <1>1, <2>1, <3>1, StackFits, Named, ThenAll DEF CallInv
    <3>3. CallInv("genLock")'
      BY <1>1, <1>2, <1>6, <2>1, <3>2
        DEF GeneratorChanged, OthersInv, Typed, BusInv, ThreadInv, RollInv, SyncInv, InLoop,
            CallInv, Labels, Closed, Waiting, Halted, Joined, Locked
    <3>4. QED
      BY <2>2, <3>3, Named
  <2>5. QED
    BY <2>3, <2>4
<1>7. CASE LockBus
  <2>1. l = "genLock"
    BY <1>1, <1>7, StackAt DEF LockBus, At, CallInv
  <2>2. ui' = Stack["genFlush"]
    BY <1>1, <1>7, <2>1, StackFits, Named, ThenNothing DEF LockBus, CallInv
  <2>3. OthersInv'
    BY <1>1, <1>2, <1>7, <2>1
      DEF LockBus, OthersInv, Typed, BusInv, ThreadInv, RollInv, SyncInv, InLoop, CallInv,
          Labels, Closed, Waiting, Halted, Joined, Locked
  <2>4. CallInv("genFlush")'
    BY <1>1, <1>2, <1>7, <2>1, <2>2
      DEF LockBus, OthersInv, Typed, BusInv, ThreadInv, RollInv, SyncInv, InLoop, CallInv,
          Labels, Closed, Waiting, Halted, Joined, Locked
  <2>5. QED
    BY <2>3, <2>4, Named
<1>8. CASE UnlockBus
  <2>1. l = "genUnlock"
    BY <1>1, <1>8, StackAt DEF UnlockBus, At, CallInv
  <2>2. ui' = Stack["idle"]
    BY <1>1, <1>8, <2>1, StackFits, Named, ThenNothing DEF UnlockBus, CallInv
  <2>3. OthersInv'
    BY <1>1, <1>2, <1>8, <2>1
      DEF UnlockBus, OthersInv, Typed, BusInv, ThreadInv, RollInv, SyncInv, InLoop, CallInv,
          Labels, Closed, Waiting, Halted, Joined, Locked
  <2>4. CallInv("idle")'
    BY <1>1, <1>2, <1>8, <2>1, <2>2
      DEF UnlockBus, OthersInv, Typed, BusInv, ThreadInv, RollInv, SyncInv, InLoop, CallInv,
          Labels, Closed, Waiting, Halted, Joined, Locked
  <2>5. QED
    BY <2>3, <2>4, Named
<1>9. CASE Store
  <2>1. l = "store"
    BY <1>1, <1>9, StackAt DEF Store, At, CallInv
  <2>2. ui' = Stack["idle"]
    BY <1>1, <1>9, <2>1, StackFits, Named, ThenNothing DEF Store, CallInv
  <2>3. OthersInv'
    BY <1>1, <1>2, <1>9, <2>1
      DEF Store, OthersInv, Typed, BusInv, ThreadInv, RollInv, SyncInv, InLoop, CallInv,
          Labels, Closed, Waiting, Halted, Joined, Locked
  <2>4. CallInv("idle")'
    BY <1>1, <1>2, <1>9, <2>1, <2>2
      DEF Store, OthersInv, Typed, BusInv, ThreadInv, RollInv, SyncInv, InLoop, CallInv,
          Labels, Closed, Waiting, Halted, Joined, Locked
  <2>5. QED
    BY <2>3, <2>4, Named
<1>10. QED
  BY <1>4, <1>5, <1>6, <1>7, <1>8, <1>9 DEF Sending

\* The steps of start() and single().
LEMMA StartingSteps ==
  ASSUME DriverInv, Starting PROVE DriverInv'
<1> USE DEF core, settings, device, shot, locks, loop, pinging, Free
<1>1. PICK l \in Labels : CallInv(l)
  BY DEF DriverInv
<1>2. Typed /\ BusInv /\ ThreadInv /\ RollInv /\ SyncInv
  BY DEF DriverInv, OthersInv
<1>3. SUFFICES OthersInv' /\ \E m \in Labels : CallInv(m)'
  BY DEF DriverInv
<1>4. CASE Join
  <2>1. l \in {"startJoin", "singleJoin"}
    BY <1>1, <1>4, StackAt DEF Join, At, CallInv
  <2>2. OthersInv'
    BY <1>1, <1>2, <1>4, <2>1
      DEF Join, OthersInv, Typed, BusInv, ThreadInv, RollInv, SyncInv, InLoop, CallInv,
          Labels, Closed, Waiting, Halted, Joined, Locked
  <2>3. CASE l = "startJoin"
    <3>1. ui' = Stack["startSpawn"]
      BY <1>1, <1>4, <2>3, StackFits, Named, ThenNothing DEF Join, CallInv
    <3>2. CallInv("startSpawn")'
      BY <1>1, <1>2, <1>4, <2>3, <3>1
        DEF Join, OthersInv, Typed, BusInv, ThreadInv, RollInv, SyncInv, InLoop, CallInv,
            Labels, Closed, Waiting, Halted, Joined, Locked
    <3>3. QED
      BY <2>2, <3>2, Named
  <2>4. CASE l = "singleJoin"
    <3>1. ui' = Stack["singleSpawn"]
      BY <1>1, <1>4, <2>4, StackFits, Named, ThenNothing DEF Join, CallInv
    <3>2. CallInv("singleSpawn")'
      BY <1>1, <1>2, <1>4, <2>4, <3>1
        DEF Join, OthersInv, Typed, BusInv, ThreadInv, RollInv, SyncInv, InLoop, CallInv,
            Labels, Closed, Waiting, Halted, Joined, Locked
    <3>3. QED
      BY <2>2, <3>2, Named
  <2>5. QED
    BY <2>1, <2>3, <2>4
<1>5. CASE Spawn
  <2>1. l \in {"startSpawn", "singleSpawn"}
    BY <1>1, <1>5, StackAt DEF Spawn, At, CallInv
  <2>2. OthersInv'
    BY <1>1, <1>2, <1>5, <2>1
      DEF Spawn, OthersInv, Typed, BusInv, ThreadInv, RollInv, SyncInv, InLoop, CallInv,
          Labels, Closed, Waiting, Halted, Joined, Locked
  <2>3. CASE l = "startSpawn"
    <3>1. ui' = Stack["startSay"]
      BY <1>1, <1>5, <2>3, StackFits, Named, ThenNothing DEF Spawn, CallInv
    <3>2. CallInv("startSay")'
      BY <1>1, <1>2, <1>5, <2>3, <3>1
        DEF Spawn, OthersInv, Typed, BusInv, ThreadInv, RollInv, SyncInv, InLoop, CallInv,
            Labels, Closed, Waiting, Halted, Joined, Locked
    <3>3. QED
      BY <2>2, <3>2, Named
  <2>4. CASE l = "singleSpawn"
    <3>1. ui' = Stack["singleSay"]
      BY <1>1, <1>5, <2>4, StackFits, Named, ThenNothing DEF Spawn, CallInv
    <3>2. CallInv("singleSay")'
      BY <1>1, <1>2, <1>5, <2>4, <3>1
        DEF Spawn, OthersInv, Typed, BusInv, ThreadInv, RollInv, SyncInv, InLoop, CallInv,
            Labels, Closed, Waiting, Halted, Joined, Locked
    <3>3. QED
      BY <2>2, <3>2, Named
  <2>5. QED
    BY <2>1, <2>3, <2>4
<1>6. CASE Announce
  <2>1. l \in {"startSay", "singleSay"}
    BY <1>1, <1>6, StackAt DEF Announce, At, CallInv
  <2>2. OthersInv'
    BY <1>1, <1>2, <1>6, <2>1
      DEF Announce, OthersInv, Typed, BusInv, ThreadInv, RollInv, SyncInv, InLoop, CallInv,
          Labels, Closed, Waiting, Halted, Joined, Locked
  <2>3. CASE l = "startSay"
    <3>1. ui' = Stack["idle"]
      BY <1>1, <1>6, <2>3, StackFits, Named, ThenNothing DEF Announce, CallInv
    <3>2. CallInv("idle")'
      BY <1>1, <1>2, <1>6, <2>3, <3>1
        DEF Announce, OthersInv, Typed, BusInv, ThreadInv, RollInv, SyncInv, InLoop, CallInv,
            Labels, Closed, Waiting, Halted, Joined, Locked
    <3>3. QED
      BY <2>2, <3>2, Named
  <2>4. CASE l = "singleSay"
    <3>1. ui' = Stack["singleAsk"]
      BY <1>1, <1>6, <2>4, StackFits, Named, ThenNothing DEF Announce, CallInv
    <3>2. CallInv("singleAsk")'
      BY <1>1, <1>2, <1>6, <2>4, <3>1
        DEF Announce, OthersInv, Typed, BusInv, ThreadInv, RollInv, SyncInv, InLoop, CallInv,
            Labels, Closed, Waiting, Halted, Joined, Locked
    <3>3. QED
      BY <2>2, <3>2, Named
  <2>5. QED
    BY <2>1, <2>3, <2>4
<1>7. CASE AskSingle
  <2>1. l = "singleAsk"
    BY <1>1, <1>7, StackAt DEF AskSingle, At, CallInv
  <2>2. ui' = Stack["idle"]
    BY <1>1, <1>7, <2>1, StackFits, Named, ThenNothing DEF AskSingle, CallInv
  <2>3. OthersInv'
    BY <1>1, <1>2, <1>7, <2>1
      DEF AskSingle, OthersInv, Typed, BusInv, ThreadInv, RollInv, SyncInv, InLoop, CallInv,
          Labels, Closed, Waiting, Halted, Joined, Locked
  <2>4. CallInv("idle")'
    BY <1>1, <1>2, <1>7, <2>1, <2>2
      DEF AskSingle, OthersInv, Typed, BusInv, ThreadInv, RollInv, SyncInv, InLoop, CallInv,
          Labels, Closed, Waiting, Halted, Joined, Locked
  <2>5. QED
    BY <2>3, <2>4, Named
<1>8. QED
  BY <1>4, <1>5, <1>6, <1>7 DEF Starting

\* The steps of stop() and close().
LEMMA StoppingSteps ==
  ASSUME DriverInv, Stopping PROVE DriverInv'
<1> USE DEF core, settings, device, shot, locks, loop, pinging, Free
<1>1. PICK l \in Labels : CallInv(l)
  BY DEF DriverInv
<1>2. Typed /\ BusInv /\ ThreadInv /\ RollInv /\ SyncInv
  BY DEF DriverInv, OthersInv
<1>3. SUFFICES OthersInv' /\ \E m \in Labels : CallInv(m)'
  BY DEF DriverInv
<1>4. CASE Clear
  <2>1. l \in {"closeStop", "stopClear", "autoStop"}
    BY <1>1, <1>4, StackAt DEF Clear, At, CallInv
  <2>2. OthersInv'
    BY <1>1, <1>2, <1>4, <2>1
      DEF Clear, OthersInv, Typed, BusInv, ThreadInv, RollInv, SyncInv, InLoop, CallInv,
          Labels, Closed, Waiting, Halted, Joined, Locked
  <2>3. CASE thread = "none"
    <3>1. CASE l = "closeStop"
      <4>1. ui' = Stack["closeQuiet"]
        BY <1>1, <1>4, <2>3, <3>1, StackFits, Named, ThenNothing DEF Clear, CallInv
      <4>2. CallInv("closeQuiet")'
        BY <1>1, <1>2, <1>4, <3>1, <4>1, <2>3
          DEF Clear, OthersInv, Typed, BusInv, ThreadInv, RollInv, SyncInv, InLoop, CallInv,
              Labels, Closed, Waiting, Halted, Joined, Locked
      <4>3. QED
        BY <2>2, <4>2, Named
    <3>2. CASE l = "stopClear"
      <4>1. ui' = Stack["idle"]
        BY <1>1, <1>4, <2>3, <3>2, StackFits, Named, ThenNothing DEF Clear, CallInv
      <4>2. CallInv("idle")'
        BY <1>1, <1>2, <1>4, <3>2, <4>1, <2>3
          DEF Clear, OthersInv, Typed, BusInv, ThreadInv, RollInv, SyncInv, InLoop, CallInv,
              Labels, Closed, Waiting, Halted, Joined, Locked
      <4>3. QED
        BY <2>2, <4>2, Named
    <3>3. CASE l = "autoStop"
      <4>1. ui' = Stack["autoMeasure"]
        BY <1>1, <1>4, <2>3, <3>3, StackFits, Named, ThenNothing DEF Clear, CallInv
      <4>2. CallInv("autoMeasure")'
        BY <1>1, <1>2, <1>4, <3>3, <4>1, <2>3
          DEF Clear, OthersInv, Typed, BusInv, ThreadInv, RollInv, SyncInv, InLoop, CallInv,
              Labels, Closed, Waiting, Halted, Joined, Locked
      <4>3. QED
        BY <2>2, <4>2, Named
    <3>4. QED
      BY <2>1, <3>1, <3>2, <3>3
  <2>4. CASE thread # "none"
    <3>5. Then(<<"joinLoop">>)
      BY <1>4, <2>4 DEF Clear
    <3>1. CASE l = "closeStop"
      <4>1. ui' = Stack["closeWait"]
        <5>1. ui = Stack[l] /\ Fits(l, "clear", "closeQuiet") /\ Fits("closeWait", "joinLoop",
              "closeQuiet")
          BY <1>1, <3>1, StackFits DEF CallInv
        <5>2. QED
          BY <3>5, <5>1, Named, ThenOne
      <4>2. CallInv("closeWait")'
        BY <1>1, <1>2, <1>4, <2>4, <3>1, <4>1
          DEF Clear, OthersInv, Typed, BusInv, ThreadInv, RollInv, SyncInv, InLoop, CallInv,
              Labels, Closed, Waiting, Halted, Joined, Locked
      <4>3. QED
        BY <2>2, <4>2, Named
    <3>2. CASE l = "stopClear"
      <4>1. ui' = Stack["stopWait"]
        <5>1. ui = Stack[l] /\ Fits(l, "clear", "idle") /\ Fits("stopWait", "joinLoop", "idle")
          BY <1>1, <3>2, StackFits DEF CallInv
        <5>2. QED
          BY <3>5, <5>1, Named, ThenOne
      <4>2. CallInv("stopWait")'
        BY <1>1, <1>2, <1>4, <2>4, <3>2, <4>1
          DEF Clear, OthersInv, Typed, BusInv, ThreadInv, RollInv, SyncInv, InLoop, CallInv,
              Labels, Closed, Waiting, Halted, Joined, Locked
      <4>3. QED
        BY <2>2, <4>2, Named
    <3>3. CASE l = "autoStop"
      <4>1. ui' = Stack["autoWait"]
        <5>1. ui = Stack[l] /\ Fits(l, "clear", "autoMeasure") /\ Fits("autoWait", "joinLoop",
              "autoMeasure")
          BY <1>1, <3>3, StackFits DEF CallInv
        <5>2. QED
          BY <3>5, <5>1, Named, ThenOne
      <4>2. CallInv("autoWait")'
        BY <1>1, <1>2, <1>4, <2>4, <3>3, <4>1
          DEF Clear, OthersInv, Typed, BusInv, ThreadInv, RollInv, SyncInv, InLoop, CallInv,
              Labels, Closed, Waiting, Halted, Joined, Locked
      <4>3. QED
        BY <2>2, <4>2, Named
    <3>4. QED
      BY <2>1, <3>1, <3>2, <3>3
  <2>5. QED
    BY <2>3, <2>4
<1>5. CASE JoinLoop
  <2>1. l \in {"closeWait", "stopWait", "autoWait"}
    BY <1>1, <1>5, StackAt DEF JoinLoop, At, CallInv
  <2>2. OthersInv'
    BY <1>1, <1>2, <1>5, <2>1
      DEF JoinLoop, OthersInv, Typed, BusInv, ThreadInv, RollInv, SyncInv, InLoop, CallInv,
          Labels, Closed, Waiting, Halted, Joined, Locked
  <2>3. CASE l = "closeWait"
    <3>1. ui' = Stack["closeQuiet"]
      BY <1>1, <1>5, <2>3, StackFits, Named, ThenNothing DEF JoinLoop, CallInv
    <3>2. CallInv("closeQuiet")'
      BY <1>1, <1>2, <1>5, <2>3, <3>1
        DEF JoinLoop, OthersInv, Typed, BusInv, ThreadInv, RollInv, SyncInv, InLoop, CallInv,
            Labels, Closed, Waiting, Halted, Joined, Locked
    <3>3. QED
      BY <2>2, <3>2, Named
  <2>4. CASE l = "stopWait"
    <3>1. ui' = Stack["idle"]
      BY <1>1, <1>5, <2>4, StackFits, Named, ThenNothing DEF JoinLoop, CallInv
    <3>2. CallInv("idle")'
      BY <1>1, <1>2, <1>5, <2>4, <3>1
        DEF JoinLoop, OthersInv, Typed, BusInv, ThreadInv, RollInv, SyncInv, InLoop, CallInv,
            Labels, Closed, Waiting, Halted, Joined, Locked
    <3>3. QED
      BY <2>2, <3>2, Named
  <2>5. CASE l = "autoWait"
    <3>1. ui' = Stack["autoMeasure"]
      BY <1>1, <1>5, <2>5, StackFits, Named, ThenNothing DEF JoinLoop, CallInv
    <3>2. CallInv("autoMeasure")'
      BY <1>1, <1>2, <1>5, <2>5, <3>1
        DEF JoinLoop, OthersInv, Typed, BusInv, ThreadInv, RollInv, SyncInv, InLoop, CallInv,
            Labels, Closed, Waiting, Halted, Joined, Locked
    <3>3. QED
      BY <2>2, <3>2, Named
  <2>6. QED
    BY <2>1, <2>3, <2>4, <2>5
<1>6. CASE Quieten
  <2>1. l = "closeQuiet"
    BY <1>1, <1>6, StackAt DEF Quieten, At, CallInv
  <2>2. ui' = Stack["closeAlive"]
    BY <1>1, <1>6, <2>1, StackFits, Named, ThenNothing DEF Quieten, CallInv
  <2>3. OthersInv'
    BY <1>1, <1>2, <1>6, <2>1
      DEF Quieten, OthersInv, Typed, BusInv, ThreadInv, RollInv, SyncInv, InLoop, CallInv,
          Labels, Closed, Waiting, Halted, Joined, Locked
  <2>4. CallInv("closeAlive")'
    BY <1>1, <1>2, <1>6, <2>1, <2>2
      DEF Quieten, OthersInv, Typed, BusInv, ThreadInv, RollInv, SyncInv, InLoop, CallInv,
          Labels, Closed, Waiting, Halted, Joined, Locked
  <2>5. QED
    BY <2>3, <2>4, Named
<1>7. CASE JoinAlive
  <2>1. l = "closeAlive"
    BY <1>1, <1>7, StackAt DEF JoinAlive, At, CallInv
  <2>2. ui' = Stack["closeDetach"]
    BY <1>1, <1>7, <2>1, StackFits, Named, ThenNothing DEF JoinAlive, CallInv
  <2>3. OthersInv'
    BY <1>1, <1>2, <1>7, <2>1
      DEF JoinAlive, OthersInv, Typed, BusInv, ThreadInv, RollInv, SyncInv, InLoop, CallInv,
          Labels, Closed, Waiting, Halted, Joined, Locked
  <2>4. CallInv("closeDetach")'
    BY <1>1, <1>2, <1>7, <2>1, <2>2
      DEF JoinAlive, OthersInv, Typed, BusInv, ThreadInv, RollInv, SyncInv, InLoop, CallInv,
          Labels, Closed, Waiting, Halted, Joined, Locked
  <2>5. QED
    BY <2>3, <2>4, Named
<1>8. CASE Detach
  <2>1. l = "closeDetach"
    BY <1>1, <1>8, StackAt DEF Detach, At, CallInv
  <2>2. ui' = Stack["idle"]
    BY <1>1, <1>8, <2>1, StackFits, Named, ThenNothing DEF Detach, CallInv
  <2>3. OthersInv'
    BY <1>1, <1>2, <1>8, <2>1
      DEF Detach, OthersInv, Typed, BusInv, ThreadInv, RollInv, SyncInv, InLoop, CallInv,
          Labels, Closed, Waiting, Halted, Joined, Locked
  <2>4. CallInv("idle")'
    BY <1>1, <1>2, <1>8, <2>1, <2>2
      DEF Detach, OthersInv, Typed, BusInv, ThreadInv, RollInv, SyncInv, InLoop, CallInv,
          Labels, Closed, Waiting, Halted, Joined, Locked
  <2>5. QED
    BY <2>3, <2>4, Named
<1>9. QED
  BY <1>4, <1>5, <1>6, <1>7, <1>8 DEF Stopping

\* The steps of autoset().
LEMMA AutosetSteps ==
  ASSUME DriverInv, Autoset PROVE DriverInv'
<1> USE DEF core, settings, device, shot, locks, loop, pinging, Free
<1>1. PICK l \in Labels : CallInv(l)
  BY DEF DriverInv
<1>2. Typed /\ BusInv /\ ThreadInv /\ RollInv /\ SyncInv
  BY DEF DriverInv, OthersInv
<1>3. SUFFICES OthersInv' /\ \E m \in Labels : CallInv(m)'
  BY DEF DriverInv
<1>4. CASE Measure
  <2>1. l \in {"autoMeasure", "restMeasure"}
    BY <1>1, <1>4, StackAt DEF Measure, At, CallInv
  <2>2. OthersInv'
    BY <1>1, <1>2, <1>4, <2>1
      DEF Measure, Mixed, OthersInv, Typed, BusInv, ThreadInv, RollInv, SyncInv, InLoop,
          CallInv, Labels, Closed, Waiting, Halted, Joined, Locked
  <2>3. CASE Then(<<>>)
    <3>1. CASE l = "autoMeasure"
      <4>1. ui' = Stack["autoRestart"]
        BY <1>1, <2>3, <3>1, StackFits, Named, ThenNothing DEF CallInv
      <4>2. CallInv("autoRestart")'
        BY <1>1, <1>2, <1>4, <3>1, <4>1
          DEF Measure, OthersInv, Typed, BusInv, ThreadInv, RollInv, SyncInv, InLoop, CallInv,
              Labels, Closed, Waiting, Halted, Joined, Locked
      <4>3. QED
        BY <2>2, <4>2, Named
    <3>2. CASE l = "restMeasure"
      <4>1. ui' = Stack["idle"]
        BY <1>1, <2>3, <3>2, StackFits, Named, ThenNothing DEF CallInv
      <4>2. CallInv("idle")'
        BY <1>1, <1>2, <1>4, <3>2, <4>1
          DEF Measure, OthersInv, Typed, BusInv, ThreadInv, RollInv, SyncInv, InLoop, CallInv,
              Labels, Closed, Waiting, Halted, Joined, Locked
      <4>3. QED
        BY <2>2, <4>2, Named
    <3>3. QED
      BY <2>1, <3>1, <3>2
  <2>4. CASE Fails
    <3>1. ui' = Stack["idle"]
      BY <2>4, StackFits DEF Fails
    <3>2. CallInv("idle")'
      BY <1>1, <1>2, <1>4, <2>1, <2>4, <3>1
        DEF Measure, OthersInv, Typed, BusInv, ThreadInv, RollInv, SyncInv, InLoop, CallInv,
            Labels, Closed, Waiting, Halted, Joined, Locked
    <3>3. QED
      BY <2>2, <3>2, Named
  <2>5. CASE Then(<<"rescale", "apply", "applying">>)
    <3>1. CASE l = "autoMeasure"
      <4>1. Tail(ui) = <<"restart">>
        <5>1. Tail(ui) = Stack["autoRestart"]
          BY <1>1, <3>1, StackFits DEF CallInv, Fits
        <5>2. QED
          BY <5>1 DEF Stack
      <4>2. <<"rescale", "apply", "applying">> \o <<"restart">>
              = <<"rescale", "apply", "applying", "restart">>
        <5>1. /\ "rescale" \in Steps /\ "apply" \in Steps
              /\ "applying" \in Steps /\ "restart" \in Steps
          BY DEF Steps
        <5>2. QED
          BY <5>1, PutThree
      <4>3. ui' = Stack["autoRescale"]
        BY <2>5, <4>1, <4>2 DEF Then, Stack
      <4>4. CallInv("autoRescale")'
        BY <1>1, <1>2, <1>4, <3>1, <4>3
          DEF Measure, OthersInv, Typed, BusInv, ThreadInv, RollInv, SyncInv, InLoop, CallInv,
              Labels, Closed, Waiting, Halted, Joined, Locked
      <4>5. QED
        BY <2>2, <4>4, Named
    <3>2. CASE l = "restMeasure"
      <4>1. <<"rescale", "apply", "applying">> = Stack["restRescale"]
        BY DEF Stack
      <4>2. ui' = Stack["restRescale"]
        BY <1>1, <2>5, <3>2, <4>1, StackFits, Named, ThenAll DEF CallInv
      <4>3. CallInv("restRescale")'
        BY <1>1, <1>2, <1>4, <3>2, <4>2
          DEF Measure, OthersInv, Typed, BusInv, ThreadInv, RollInv, SyncInv, InLoop, CallInv,
              Labels, Closed, Waiting, Halted, Joined, Locked
      <4>4. QED
        BY <2>2, <4>3, Named
    <3>3. QED
      BY <2>1, <3>1, <3>2
  <2>6. QED
    BY <1>4, <2>3, <2>4, <2>5 DEF Measure
<1>5. CASE Rescale
  <2>1. l \in {"autoRescale", "restRescale"}
    BY <1>1, <1>5, StackAt DEF Rescale, At, CallInv
  <2>2. OthersInv'
    BY <1>1, <1>2, <1>5, <2>1
      DEF Rescale, OthersInv, Typed, BusInv, ThreadInv, RollInv, SyncInv, InLoop, CallInv,
          Labels, Closed, Waiting, Halted, Joined, Locked
  <2>3. CASE l = "autoRescale"
    <3>1. ui' = Stack["autoApply"]
      BY <1>1, <1>5, <2>3, StackFits, Named, ThenNothing DEF Rescale, CallInv
    <3>2. CallInv("autoApply")'
      BY <1>1, <1>2, <1>5, <2>3, <3>1
        DEF Rescale, OthersInv, Typed, BusInv, ThreadInv, RollInv, SyncInv, InLoop, CallInv,
            Labels, Closed, Waiting, Halted, Joined, Locked
    <3>3. QED
      BY <2>2, <3>2, Named
  <2>4. CASE l = "restRescale"
    <3>1. ui' = Stack["restApply"]
      BY <1>1, <1>5, <2>4, StackFits, Named, ThenNothing DEF Rescale, CallInv
    <3>2. CallInv("restApply")'
      BY <1>1, <1>2, <1>5, <2>4, <3>1
        DEF Rescale, OthersInv, Typed, BusInv, ThreadInv, RollInv, SyncInv, InLoop, CallInv,
            Labels, Closed, Waiting, Halted, Joined, Locked
    <3>3. QED
      BY <2>2, <3>2, Named
  <2>5. QED
    BY <2>1, <2>3, <2>4
<1>6. CASE Apply
  <2>1. l \in {"autoApply", "restApply"}
    BY <1>1, <1>6, StackAt DEF Apply, At, CallInv
  <2>2. OthersInv'
    BY <1>1, <1>2, <1>6, <2>1
      DEF Apply, OthersInv, Typed, BusInv, ThreadInv, RollInv, SyncInv, InLoop, CallInv,
          Labels, Closed, Waiting, Halted, Joined, Locked
  <2>3. CASE l = "autoApply"
    <3>1. ui' = Stack["autoSend"]
      BY <1>1, <1>6, <2>3, StackFits, Named, ThenNothing DEF Apply, CallInv
    <3>2. CallInv("autoSend")'
      BY <1>1, <1>2, <1>6, <2>3, <3>1
        DEF Apply, OthersInv, Typed, BusInv, ThreadInv, RollInv, SyncInv, InLoop, CallInv,
            Labels, Closed, Waiting, Halted, Joined, Locked
    <3>3. QED
      BY <2>2, <3>2, Named
  <2>4. CASE l = "restApply"
    <3>1. ui' = Stack["restSend"]
      BY <1>1, <1>6, <2>4, StackFits, Named, ThenNothing DEF Apply, CallInv
    <3>2. CallInv("restSend")'
      BY <1>1, <1>2, <1>6, <2>4, <3>1
        DEF Apply, OthersInv, Typed, BusInv, ThreadInv, RollInv, SyncInv, InLoop, CallInv,
            Labels, Closed, Waiting, Halted, Joined, Locked
    <3>3. QED
      BY <2>2, <3>2, Named
  <2>5. QED
    BY <2>1, <2>3, <2>4
<1>7. CASE Applied
  <2>1. l \in {"autoSend", "restSend"}
    BY <1>1, <1>7, StackAt DEF Applied, At, CallInv
  <2>2. OthersInv'
    BY <1>1, <1>2, <1>7, <2>1
      DEF Applied, OthersInv, Typed, BusInv, ThreadInv, RollInv, SyncInv, InLoop, CallInv,
          Labels, Closed, Waiting, Halted, Joined, Locked
  <2>3. CASE Then(<<>>)
    <3>1. CASE l = "autoSend"
      <4>1. ui' = Stack["autoRestart"]
        BY <1>1, <2>3, <3>1, StackFits, Named, ThenNothing DEF CallInv
      <4>2. CallInv("autoRestart")'
        BY <1>1, <1>2, <1>7, <3>1, <4>1
          DEF Applied, OthersInv, Typed, BusInv, ThreadInv, RollInv, SyncInv, InLoop, CallInv,
              Labels, Closed, Waiting, Halted, Joined, Locked
      <4>3. QED
        BY <2>2, <4>2, Named
    <3>2. CASE l = "restSend"
      <4>1. ui' = Stack["idle"]
        BY <1>1, <2>3, <3>2, StackFits, Named, ThenNothing DEF CallInv
      <4>2. CallInv("idle")'
        BY <1>1, <1>2, <1>7, <3>2, <4>1
          DEF Applied, OthersInv, Typed, BusInv, ThreadInv, RollInv, SyncInv, InLoop, CallInv,
              Labels, Closed, Waiting, Halted, Joined, Locked
      <4>3. QED
        BY <2>2, <4>2, Named
    <3>3. QED
      BY <2>1, <3>1, <3>2
  <2>4. CASE Fails
    <3>1. ui' = Stack["idle"]
      BY <2>4, StackFits DEF Fails
    <3>2. CallInv("idle")'
      BY <1>1, <1>2, <1>7, <2>1, <2>4, <3>1
        DEF Applied, OthersInv, Typed, BusInv, ThreadInv, RollInv, SyncInv, InLoop, CallInv,
            Labels, Closed, Waiting, Halted, Joined, Locked
    <3>3. QED
      BY <2>2, <3>2, Named
  <2>5. QED
    BY <1>7, <2>3, <2>4 DEF Applied
<1>8. CASE Restart
  <2>1. l = "autoRestart"
    BY <1>1, <1>8, StackAt DEF Restart, At, CallInv
  <2>2. OthersInv'
    BY <1>1, <1>2, <1>8, <2>1
      DEF Restart, OthersInv, Typed, BusInv, ThreadInv, RollInv, SyncInv, InLoop, CallInv,
          Labels, Closed, Waiting, Halted, Joined, Locked
  <2>3. ~running
    BY <1>1, <2>1 DEF CallInv, Halted
  <2>4. Then(Stack["startJoin"])
    BY <1>8, <2>3, Plans DEF Restart
  <2>5. ui' = Stack["startJoin"]
    BY <1>1, <2>1, <2>4, StackFits, Named, ThenAll DEF CallInv
  <2>6. CallInv("startJoin")'
    BY <1>1, <1>2, <1>8, <2>1, <2>5
      DEF Restart, OthersInv, Typed, BusInv, ThreadInv, RollInv, SyncInv, InLoop, CallInv,
          Labels, Closed, Waiting, Halted, Joined, Locked
  <2>7. QED
    BY <2>2, <2>6, Named
<1>9. QED
  BY <1>4, <1>5, <1>6, <1>7, <1>8 DEF Autoset

\* The steps of the acquisition thread leave the caller where it is.
LEMMA LoopSteps ==
  ASSUME DriverInv, LoopStep PROVE DriverInv'
<1> USE DEF core, settings, device, shot, locks, loop, pinging, Free, Goes, Breaks
<1>1. PICK l \in Labels : CallInv(l)
  BY DEF DriverInv
<1>2. Typed /\ BusInv /\ ThreadInv /\ RollInv /\ SyncInv
  BY DEF DriverInv, OthersInv
<1>3. SUFFICES OthersInv' /\ CallInv(l)'
  BY DEF DriverInv
<1>4. CASE LoopTop
  <2>1. OthersInv'
    BY <1>1, <1>2, <1>4
      DEF LoopTop, OthersInv, Typed, BusInv, ThreadInv, RollInv, SyncInv, InLoop, CallInv
  <2>2. CallInv(l)'
    BY <1>1, <1>2, <1>4
      DEF LoopTop, OthersInv, Typed, BusInv, ThreadInv, RollInv, SyncInv, InLoop, CallInv,
          Labels, Closed, Waiting, Halted, Joined, Locked
  <2>3. QED
    BY <2>1, <2>2
<1>5. CASE TakeBus
  <2>1. OthersInv'
    BY <1>1, <1>2, <1>5
      DEF TakeBus, OthersInv, Typed, BusInv, ThreadInv, RollInv, SyncInv, InLoop, CallInv
  <2>2. CallInv(l)'
    BY <1>1, <1>2, <1>5
      DEF TakeBus, OthersInv, Typed, BusInv, ThreadInv, RollInv, SyncInv, InLoop, CallInv,
          Labels, Closed, Waiting, Halted, Joined, Locked
  <2>3. QED
    BY <2>1, <2>2
<1>6. CASE LoopFlush
  <2>1. OthersInv'
    BY <1>1, <1>2, <1>6
      DEF LoopFlush, OthersInv, Typed, BusInv, ThreadInv, RollInv, SyncInv, InLoop, CallInv
  <2>2. CallInv(l)'
    BY <1>1, <1>2, <1>6
      DEF LoopFlush, OthersInv, Typed, BusInv, ThreadInv, RollInv, SyncInv, InLoop, CallInv,
          Labels, Closed, Waiting, Halted, Joined, Locked
  <2>3. QED
    BY <2>1, <2>2
<1>7. CASE LoopFlushed
  <2>1. OthersInv'
    BY <1>1, <1>2, <1>7
      DEF LoopFlushed, OthersInv, Typed, BusInv, ThreadInv, RollInv, SyncInv, InLoop, CallInv
  <2>2. CallInv(l)'
    BY <1>1, <1>2, <1>7
      DEF LoopFlushed, OthersInv, Typed, BusInv, ThreadInv, RollInv, SyncInv, InLoop, CallInv,
          Labels, Closed, Waiting, Halted, Joined, Locked
  <2>3. QED
    BY <2>1, <2>2
<1>8. CASE LoopLook
  <2>1. OthersInv'
    BY <1>1, <1>2, <1>8
      DEF LoopLook, OthersInv, Typed, BusInv, ThreadInv, RollInv, SyncInv, InLoop, CallInv
  <2>2. CallInv(l)'
    BY <1>1, <1>2, <1>8
      DEF LoopLook, OthersInv, Typed, BusInv, ThreadInv, RollInv, SyncInv, InLoop, CallInv,
          Labels, Closed, Waiting, Halted, Joined, Locked
  <2>3. QED
    BY <2>1, <2>2
<1>9. CASE LoopApply
  <2>1. OthersInv'
    BY <1>1, <1>2, <1>9
      DEF LoopApply, OthersInv, Typed, BusInv, ThreadInv, RollInv, SyncInv, InLoop, CallInv
  <2>2. CallInv(l)'
    BY <1>1, <1>2, <1>9
      DEF LoopApply, OthersInv, Typed, BusInv, ThreadInv, RollInv, SyncInv, InLoop, CallInv,
          Labels, Closed, Waiting, Halted, Joined, Locked
  <2>3. QED
    BY <2>1, <2>2
<1>10. CASE LoopApplied
  <2>1. OthersInv'
    BY <1>1, <1>2, <1>10
      DEF LoopApplied, OthersInv, Typed, BusInv, ThreadInv, RollInv, SyncInv, InLoop, CallInv,
          Mixed
  <2>2. CallInv(l)'
    BY <1>1, <1>2, <1>10
      DEF LoopApplied, OthersInv, Typed, BusInv, ThreadInv, RollInv, SyncInv, InLoop, CallInv,
          Labels, Closed, Waiting, Halted, Joined, Locked
  <2>3. QED
    BY <2>1, <2>2
<1>11. CASE LoopRoll
  <2>1. OthersInv'
    BY <1>1, <1>2, <1>11
      DEF LoopRoll, OthersInv, Typed, BusInv, ThreadInv, RollInv, SyncInv, InLoop, CallInv
  <2>2. CallInv(l)'
    BY <1>1, <1>2, <1>11
      DEF LoopRoll, OthersInv, Typed, BusInv, ThreadInv, RollInv, SyncInv, InLoop, CallInv,
          Labels, Closed, Waiting, Halted, Joined, Locked
  <2>3. QED
    BY <2>1, <2>2
<1>12. CASE RollStarted
  <2>1. OthersInv'
    BY <1>1, <1>2, <1>12
      DEF RollStarted, OthersInv, Typed, BusInv, ThreadInv, RollInv, SyncInv, InLoop, CallInv
  <2>2. CallInv(l)'
    BY <1>1, <1>2, <1>12
      DEF RollStarted, OthersInv, Typed, BusInv, ThreadInv, RollInv, SyncInv, InLoop, CallInv,
          Labels, Closed, Waiting, Halted, Joined, Locked
  <2>3. QED
    BY <2>1, <2>2
<1>13. CASE Snapshot
  <2>1. OthersInv'
    BY <1>1, <1>2, <1>13
      DEF Snapshot, OthersInv, Typed, BusInv, ThreadInv, RollInv, SyncInv, InLoop, CallInv
  <2>2. CallInv(l)'
    BY <1>1, <1>2, <1>13
      DEF Snapshot, OthersInv, Typed, BusInv, ThreadInv, RollInv, SyncInv, InLoop, CallInv,
          Labels, Closed, Waiting, Halted, Joined, Locked
  <2>3. QED
    BY <2>1, <2>2
<1>14. CASE CaptureFailed
  <2>1. OthersInv'
    BY <1>1, <1>2, <1>14
      DEF CaptureFailed, OthersInv, Typed, BusInv, ThreadInv, RollInv, SyncInv, InLoop, CallInv
  <2>2. CallInv(l)'
    BY <1>1, <1>2, <1>14
      DEF CaptureFailed, OthersInv, Typed, BusInv, ThreadInv, RollInv, SyncInv, InLoop,
          CallInv, Labels, Closed, Waiting, Halted, Joined, Locked
  <2>3. QED
    BY <2>1, <2>2
<1>15. CASE CaptureNothing
  <2>1. OthersInv'
    BY <1>1, <1>2, <1>15
      DEF CaptureNothing, OthersInv, Typed, BusInv, ThreadInv, RollInv, SyncInv, InLoop, CallInv
  <2>2. CallInv(l)'
    BY <1>1, <1>2, <1>15
      DEF CaptureNothing, OthersInv, Typed, BusInv, ThreadInv, RollInv, SyncInv, InLoop,
          CallInv, Labels, Closed, Waiting, Halted, Joined, Locked
  <2>3. QED
    BY <2>1, <2>2
<1>16. CASE CaptureRecord
  <2>1. OthersInv'
    BY <1>1, <1>2, <1>16
      DEF CaptureRecord, OthersInv, Typed, BusInv, ThreadInv, RollInv, SyncInv, InLoop, CallInv
  <2>2. CallInv(l)'
    BY <1>1, <1>2, <1>16
      DEF CaptureRecord, OthersInv, Typed, BusInv, ThreadInv, RollInv, SyncInv, InLoop,
          CallInv, Labels, Closed, Waiting, Halted, Joined, Locked
  <2>3. QED
    BY <2>1, <2>2
<1>17. CASE PublishFrame
  <2>1. OthersInv'
    BY <1>1, <1>2, <1>17
      DEF PublishFrame, OthersInv, Typed, BusInv, ThreadInv, RollInv, SyncInv, InLoop, CallInv
  <2>2. CallInv(l)'
    BY <1>1, <1>2, <1>17
      DEF PublishFrame, OthersInv, Typed, BusInv, ThreadInv, RollInv, SyncInv, InLoop,
          CallInv, Labels, Closed, Waiting, Halted, Joined, Locked
  <2>3. QED
    BY <2>1, <2>2
<1>18. CASE LoopCheck
  <2>1. OthersInv'
    BY <1>1, <1>2, <1>18
      DEF LoopCheck, OthersInv, Typed, BusInv, ThreadInv, RollInv, SyncInv, InLoop, CallInv
  <2>2. CallInv(l)'
    BY <1>1, <1>2, <1>18
      DEF LoopCheck, OthersInv, Typed, BusInv, ThreadInv, RollInv, SyncInv, InLoop, CallInv,
          Labels, Closed, Waiting, Halted, Joined, Locked
  <2>3. QED
    BY <2>1, <2>2
<1>19. CASE Retire
  <2>1. OthersInv'
    BY <1>1, <1>2, <1>19
      DEF Retire, OthersInv, Typed, BusInv, ThreadInv, RollInv, SyncInv, InLoop, CallInv
  <2>2. CallInv(l)'
    BY <1>1, <1>2, <1>19
      DEF Retire, OthersInv, Typed, BusInv, ThreadInv, RollInv, SyncInv, InLoop, CallInv,
          Labels, Closed, Waiting, Halted, Joined, Locked
  <2>3. QED
    BY <2>1, <2>2
<1>20. CASE Last
  <2>1. OthersInv'
    BY <1>1, <1>2, <1>20
      DEF Last, OthersInv, Typed, BusInv, ThreadInv, RollInv, SyncInv, InLoop, CallInv
  <2>2. CallInv(l)'
    BY <1>1, <1>2, <1>20
      DEF Last, OthersInv, Typed, BusInv, ThreadInv, RollInv, SyncInv, InLoop, CallInv,
          Labels, Closed, Waiting, Halted, Joined, Locked
  <2>3. QED
    BY <2>1, <2>2
<1>21. QED
  BY <1>4, <1>5, <1>6, <1>7, <1>8, <1>9, <1>10, <1>11, <1>12, <1>13, <1>14, <1>15, <1>16,
     <1>17, <1>18, <1>19, <1>20 DEF LoopStep, Capture

\* So do the steps of the keep-alive.
LEMMA AliveSteps ==
  ASSUME DriverInv, AliveStep PROVE DriverInv'
<1> USE DEF core, settings, device, shot, locks, loop, pinging, Free, Goes, Breaks
<1>1. PICK l \in Labels : CallInv(l)
  BY DEF DriverInv
<1>2. Typed /\ BusInv /\ ThreadInv /\ RollInv /\ SyncInv
  BY DEF DriverInv, OthersInv
<1>3. SUFFICES OthersInv' /\ CallInv(l)'
  BY DEF DriverInv
<1>4. CASE AliveLook
  <2>1. OthersInv'
    BY <1>1, <1>2, <1>4
      DEF AliveLook, OthersInv, Typed, BusInv, ThreadInv, RollInv, SyncInv, InLoop, CallInv
  <2>2. CallInv(l)'
    BY <1>1, <1>2, <1>4
      DEF AliveLook, OthersInv, Typed, BusInv, ThreadInv, RollInv, SyncInv, InLoop, CallInv,
          Labels, Closed, Waiting, Halted, Joined, Locked
  <2>3. QED
    BY <2>1, <2>2
<1>5. CASE AliveTakeBus
  <2>1. OthersInv'
    BY <1>1, <1>2, <1>5
      DEF AliveTakeBus, OthersInv, Typed, BusInv, ThreadInv, RollInv, SyncInv, InLoop, CallInv
  <2>2. CallInv(l)'
    BY <1>1, <1>2, <1>5
      DEF AliveTakeBus, OthersInv, Typed, BusInv, ThreadInv, RollInv, SyncInv, InLoop,
          CallInv, Labels, Closed, Waiting, Halted, Joined, Locked
  <2>3. QED
    BY <2>1, <2>2
<1>6. CASE Pinged
  <2>1. OthersInv'
    BY <1>1, <1>2, <1>6
      DEF Pinged, OthersInv, Typed, BusInv, ThreadInv, RollInv, SyncInv, InLoop, CallInv
  <2>2. CallInv(l)'
    BY <1>1, <1>2, <1>6
      DEF Pinged, OthersInv, Typed, BusInv, ThreadInv, RollInv, SyncInv, InLoop, CallInv,
          Labels, Closed, Waiting, Halted, Joined, Locked
  <2>3. QED
    BY <2>1, <2>2
<1>7. QED
  BY <1>4, <1>5, <1>6 DEF AliveStep

\* Every step of every thread keeps the invariant.
LEMMA DriverInvNext ==
  ASSUME DriverInv, [Next]_vars PROVE DriverInv'
<1>1. CASE BeginCall
  BY <1>1, Begins
<1>2. CASE UiStep
  BY <1>2, OpeningSteps, SendingSteps, StartingSteps, StoppingSteps, AutosetSteps DEF UiStep
<1>3. CASE LoopStep
  BY <1>3, LoopSteps
<1>4. CASE AliveStep
  BY <1>4, AliveSteps
<1>5. CASE UNCHANGED vars
  BY <1>5 DEF vars, core, settings, device, shot, locks, loop, pinging, DriverInv, OthersInv,
     Typed, BusInv, ThreadInv, RollInv, SyncInv, CallInv
<1>6. QED
  BY <1>1, <1>2, <1>3, <1>4, <1>5 DEF Next

\* The invariant holds in every state.
LEMMA DriverInvariant == Spec => []DriverInv
<1>1. DriverInv /\ [Next]_vars => DriverInv'
  BY DriverInvNext
<1>2. QED
  BY <1>1, DriverInvInit, PTL DEF Spec

-----------------------------------------------------------------------------
\* "ASSIGNING OVER A JOINABLE THREAD CALLS std::terminate" (start()): whatever calls
\* are made, and however a loop ended, the thread object is empty when start()
\* assigns the next loop to it.
THEOREM DriverJoinedFirst == Spec => []JoinedFirst
<1>1. DriverInv => JoinedFirst
  <2> SUFFICES ASSUME DriverInv, Calling = "spawn" PROVE thread = "none"
    BY DEF JoinedFirst
  <2>1. PICK l \in Labels : CallInv(l)
    BY DEF DriverInv
  <2>2. l \in {"startSpawn", "singleSpawn"}
    BY <2>1, StackAt DEF CallInv, Calling
  <2>3. QED
    BY <2>1, <2>2 DEF CallInv, Joined
<1>2. QED
  BY <1>1, DriverInvariant, PTL

\* m_busMutex (_runLoop(), _keepAliveLoop(), _generatorChanged()): while the loop is
\* in the middle of a call on the device, no other thread is, but one that sends the
\* pattern of a direct download(), which takes no bus.
THEOREM DriverLoopUndisturbed == Spec => []LoopUndisturbed
<1>1. DriverInv => LoopUndisturbed
  <2> SUFFICES ASSUME DriverInv, acq \in OnBus
               PROVE  alive \notin OnBus /\ (Calling \in OnBus => ui = <<"flushing">>)
    BY DEF LoopUndisturbed
  <2>1. PICK l \in Labels : CallInv(l)
    BY DEF DriverInv
  <2>2. acq \in InLoop /\ busLock = "acq"
    BY DEF DriverInv, OthersInv, Typed, BusInv, OnBus, InLoop
  <2>3. alive \notin OnBus
    BY <2>2 DEF DriverInv, OthersInv, Typed, BusInv, OnBus
  <2>4. ASSUME Calling \in OnBus PROVE ui = <<"flushing">>
    <3>1. ui # <<>> /\ Calling = Head(Stack[l])
      BY <2>1, <2>4 DEF CallInv, Calling, OnBus
    <3>2. Head(Stack[l]) \in Steps
      BY <2>1, <3>1, StackTyped, HeadTailProperties DEF CallInv
    <3>3. Head(Stack[l]) \in {"bringUp", "flushing", "applying", "measure"}
      BY <2>4, <3>1, <3>2 DEF OnBus, Steps
    <3>4. l \in {"openUp", "openSend", "genSend", "downSend", "autoSend", "restSend",
                 "autoMeasure", "restMeasure"}
      BY <2>1, <3>1, <3>3, StackAt DEF CallInv
    <3>5. l = "downSend"
      BY <2>1, <2>2, <3>4 DEF CallInv, Halted, Waiting, Locked, InLoop
    <3>6. QED
      BY <2>1, <3>5 DEF CallInv, Stack
  <2>5. QED
    BY <2>3, <2>4
<1>2. QED
  BY <1>1, DriverInvariant, PTL

\* m_configDirty (applyChannel(), autoset(), _applyConfigToDevice()): an open device
\* that was given other settings than the driver has, completely, has a change marked
\* to go out.  One that a failed transfer of autoset() left in between (Mixed) may
\* have nothing marked.
THEOREM DriverDeviceInSync == Spec => []DeviceInSync
<1>1. DriverInv => DeviceInSync
  BY DEF DriverInv, OthersInv, SyncInv, DeviceInSync
<1>2. QED
  BY <1>1, DriverInvariant, PTL

\* "The device then stalls on the next roll command" (_runLoop()): whenever a roll is
\* polled, roll mode has been started since the last thing that reconfigured the device.
THEOREM DriverRollStarts == Spec => []RollStarts
<1>1. DriverInv => RollStarts
  BY DEF DriverInv, OthersInv, RollInv, RollStarts
<1>2. QED
  BY <1>1, DriverInvariant, PTL

==============================================================================
