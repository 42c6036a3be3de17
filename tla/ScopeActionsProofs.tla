--------------------------- MODULE ScopeActionsProofs ---------------------------
(***************************************************************************)
(* What the handlers leave the acquisition loop with, proved for any set   *)
(* of edits, of signals and of trigger settings.                           *)
(*                                                                         *)
(* A handler is a script of steps that others interleave with, so the      *)
(* invariants say what holds after each of its steps: which settings it    *)
(* still has to apply, and whether the loop can run while it has not.  A   *)
(* sweep is told by where in the period of the signal it begins; that is   *)
(* a place where its trigger crosses, and of those the first from where    *)
(* the last search was left.                                               *)
(***************************************************************************)
EXTENDS ScopeActions, SequenceTheorems, WellFoundedInduction, TLAPS

\* The fields of a setter, and what is left of every handler.
Restarting == {"mode", "fits"}
Plain   == {<<>>, <<"run">>, <<"ask">>, <<"run", "ask">>, <<"clear">>, <<"join">>,
            <<"look", "copy", "apply", "resume">>, <<"clear", "copy", "apply", "resume">>}
Starting == {<<"spawn", "announce">>, <<"announce">>, <<"spawn", "announce", "ask">>,
             <<"announce", "ask">>}
Setting  == {<<"copy", "apply">>, <<"apply">>}
Ending   == {<<"join", "copy", "apply", "resume">>, <<"copy", "apply", "resume">>,
             <<"apply", "resume">>, <<"resume">>}
Scripts  == Plain \cup Starting \cup Setting \cup Ending

\* The acquisition runs in the mode of the timebase, whatever the handler is at.
ModeInv ==
  /\ script \in Scripts
  /\ running \in BOOLEAN /\ joinable \in BOOLEAN
  /\ joinable <=> loop # "none"
  /\ loop \in {"none", "done", "retire"} => ~running
  /\ running /\ script \notin Starting => state \notin {"Stopped", "Idle"}
  /\ running => mode = timebase.mode
  /\ script \in Ending => ~running
  /\ script \in Setting => edit.of \notin Restarting

\* The four kinds have nothing in common.
LEMMA Kinds ==
  /\ Plain \cap Starting = {} /\ Plain \cap Setting = {} /\ Plain \cap Ending = {}
  /\ Starting \cap Setting = {} /\ Starting \cap Ending = {} /\ Setting \cap Ending = {}
  BY DEF Plain, Starting, Setting, Ending

\* Two sequences put together, told by their lengths and their elements.
LEMMA ConcatIs ==
  ASSUME NEW S, NEW s \in Seq(S), NEW t \in Seq(S), NEW r \in Seq(S), Len(r) = Len(s) + Len(t),
         \A i \in 1 .. Len(s) : r[i] = s[i],
         \A i \in 1 .. Len(t) : r[Len(s) + i] = t[i]
  PROVE  s \o t = r
<1>1. /\ s \o t \in Seq(S) /\ Len(s \o t) = Len(s) + Len(t)
      /\ \A i \in 1 .. Len(s) + Len(t) :
           (s \o t)[i] = IF i <= Len(s) THEN s[i] ELSE t[i - Len(s)]
  BY ConcatProperties
<1>2. Len(s) \in Nat /\ Len(t) \in Nat
  BY LenProperties
<1>3. ASSUME NEW i \in 1 .. Len(r) PROVE (s \o t)[i] = r[i]
  <2>1. CASE i <= Len(s)
    BY <1>1, <1>2, <2>1
  <2>2. CASE i > Len(s)
    <3> DEFINE j == i - Len(s)
    <3>1. j \in 1 .. Len(t) /\ Len(s) + j = i
      BY <1>2, <2>2
    <3>2. (s \o t)[i] = t[j]
      BY <1>1, <1>2, <2>2
    <3> HIDE DEF j
    <3>3. r[Len(s) + j] = t[j]
      BY <3>1
    <3>4. QED
      BY <3>1, <3>2, <3>3
  <2>3. QED
    BY <2>1, <2>2, <1>2
<1>4. QED
  BY <1>1, <1>3, SeqEqual

\* A step put before what is left.
LEMMA PutBack ==
  ASSUME NEW S, NEW r \in Seq(S), r # <<>>
  PROVE  <<Head(r)>> \o Tail(r) = r
<1>1. /\ Head(r) \in S /\ Tail(r) \in Seq(S) /\ Len(Tail(r)) = Len(r) - 1 /\ Head(r) = r[1]
      /\ \A i \in 1 .. Len(Tail(r)) : Tail(r)[i] = r[i + 1]
  BY HeadTailProperties
<1> DEFINE s == <<Head(r)>>
<1>2. s \in Seq(S) /\ Len(s) = 1 /\ s[1] = r[1]
  BY <1>1
<1>3. Len(r) \in Nat
  BY LenProperties
<1> HIDE DEF s
<1>4. \A i \in 1 .. Len(s) : r[i] = s[i]
  BY <1>2
<1>5. \A i \in 1 .. Len(Tail(r)) : r[Len(s) + i] = Tail(r)[i]
  <2>1. \A i \in 1 .. Len(Tail(r)) : i + 1 = 1 + i
    BY <1>1, <1>3
  <2>2. QED
    BY <1>1, <1>2, <2>1
<1>6. Len(r) = Len(s) + Len(Tail(r))
  BY <1>1, <1>2, <1>3
<1>7. s \o Tail(r) = r
  BY <1>1, <1>2, <1>4, <1>5, <1>6, ConcatIs
<1>8. QED
  BY <1>7 DEF s

\* The scripts that the steps put together.
LEMMA Joined ==
  /\ <<"clear">> \o <<"copy", "apply", "resume">> = <<"clear", "copy", "apply", "resume">>
  /\ <<"join">> \o <<"copy", "apply", "resume">> = <<"join", "copy", "apply", "resume">>
  /\ <<"join">> \o <<>> = <<"join">>
  /\ <<"spawn", "announce">> \o <<>> = <<"spawn", "announce">>
  /\ <<"spawn", "announce">> \o <<"ask">> = <<"spawn", "announce", "ask">>
<1> DEFINE S == {"clear", "copy", "apply", "resume", "join", "spawn", "announce", "ask"}
<1>1. <<"clear">> \o <<"copy", "apply", "resume">> = <<"clear", "copy", "apply", "resume">>
  <2> DEFINE r == <<"clear", "copy", "apply", "resume">>
  <2>1. r \in Seq(S) /\ r # <<>> /\ Head(r) = "clear" /\ Tail(r) = <<"copy", "apply", "resume">>
    OBVIOUS
  <2> HIDE DEF r, S
  <2>2. <<Head(r)>> \o Tail(r) = r
    BY <2>1, PutBack
  <2>3. QED
    BY <2>1, <2>2 DEF r
<1>2. <<"join">> \o <<"copy", "apply", "resume">> = <<"join", "copy", "apply", "resume">>
  <2> DEFINE r == <<"join", "copy", "apply", "resume">>
  <2>1. r \in Seq(S) /\ r # <<>> /\ Head(r) = "join" /\ Tail(r) = <<"copy", "apply", "resume">>
    OBVIOUS
  <2> HIDE DEF r, S
  <2>2. <<Head(r)>> \o Tail(r) = r
    BY <2>1, PutBack
  <2>3. QED
    BY <2>1, <2>2 DEF r
<1>3. <<"join">> \o <<>> = <<"join">> /\ <<"spawn", "announce">> \o <<>> = <<"spawn", "announce">>
  <2>1. <<"join">> \in Seq(S) /\ <<"spawn", "announce">> \in Seq(S)
    OBVIOUS
  <2>2. QED
    BY <2>1, ConcatEmptySeq
<1>4. <<"spawn", "announce">> \o <<"ask">> = <<"spawn", "announce", "ask">>
  <2> DEFINE s == <<"spawn", "announce">>
             t == <<"ask">>
             r == <<"spawn", "announce", "ask">>
  <2>1. s \in Seq(S) /\ t \in Seq(S) /\ r \in Seq(S) /\ Len(s) = 2 /\ Len(t) = 1 /\ Len(r) = 3
    OBVIOUS
  <2>2. s[1] = r[1] /\ s[2] = r[2] /\ t[1] = r[3]
    OBVIOUS
  <2> HIDE DEF s, t, r, S
  <2>3. (\A i \in 1 .. Len(s) : r[i] = s[i]) /\ (\A i \in 1 .. Len(t) : r[Len(s) + i] = t[i])
    <3>1. \A i \in 1 .. 2 : i = 1 \/ i = 2
      OBVIOUS
    <3>2. QED
      BY <2>1, <2>2, <3>1
  <2>4. s \o t = r
    <3>1. Len(r) = Len(s) + Len(t)
      BY <2>1
    <3>2. QED
      BY <2>1, <2>3, <3>1, ConcatIs
  <2>5. QED
    BY <2>4 DEF s, t, r
<1>5. QED
  BY <1>1, <1>2, <1>3, <1>4

\* The scripts with a given step next, and what is left of them after it.
Leaves(s, t) == script = s /\ Tail(script) = t

\* What is first in a short sequence, and what is left of it.
LEMMA Heads ==
  /\ \A a, b, c, d : /\ Head(<<a>>) = a /\ Head(<<a, b>>) = a
                     /\ Head(<<a, b, c>>) = a /\ Head(<<a, b, c, d>>) = a
  /\ \A a, b, c, d : /\ Tail(<<a>>) = <<>> /\ Tail(<<a, b>>) = <<b>>
                     /\ Tail(<<a, b, c>>) = <<b, c>> /\ Tail(<<a, b, c, d>>) = <<b, c, d>>
  OBVIOUS

\* Which script runs, told by the handler step that is next, and what is left of
\* it then.
LEMMA DoingIs ==
  ASSUME script \in Scripts
  PROVE  /\ Doing("look") => Leaves(<<"look", "copy", "apply", "resume">>, <<"copy", "apply", "resume">>)
         /\ Doing("resume") => Leaves(<<"resume">>, <<>>)
         /\ Doing("copy") => \/ Leaves(<<"copy", "apply">>, <<"apply">>)
                             \/ Leaves(<<"copy", "apply", "resume">>, <<"apply", "resume">>)
         /\ Doing("apply") => \/ Leaves(<<"apply">>, <<>>)
                              \/ Leaves(<<"apply", "resume">>, <<"resume">>)
         /\ Doing("run") => Leaves(<<"run">>, <<>>) \/ Leaves(<<"run", "ask">>, <<"ask">>)
         /\ Doing("spawn") => \/ Leaves(<<"spawn", "announce">>, <<"announce">>)
                              \/ Leaves(<<"spawn", "announce", "ask">>, <<"announce", "ask">>)
         /\ Doing("announce") => \/ Leaves(<<"announce">>, <<>>)
                                 \/ Leaves(<<"announce", "ask">>, <<"ask">>)
         /\ Doing("ask") => Leaves(<<"ask">>, <<>>)
         /\ Doing("clear") => \/ Leaves(<<"clear">>, <<>>)
                              \/ Leaves(<<"clear", "copy", "apply", "resume">>, <<"copy", "apply", "resume">>)
         /\ Doing("join") => \/ Leaves(<<"join">>, <<>>)
                             \/ Leaves(<<"join", "copy", "apply", "resume">>, <<"copy", "apply", "resume">>)
<1>1. /\ Doing("look") => script \in {<<"look", "copy", "apply", "resume">>}
      /\ Doing("resume") => script \in {<<"resume">>}
      /\ Doing("copy") => script \in {<<"copy", "apply">>, <<"copy", "apply", "resume">>}
      /\ Doing("apply") => script \in {<<"apply">>, <<"apply", "resume">>}
      /\ Doing("run") => script \in {<<"run">>, <<"run", "ask">>}
      /\ Doing("spawn") => script \in {<<"spawn", "announce">>, <<"spawn", "announce", "ask">>}
      /\ Doing("announce") => script \in {<<"announce">>, <<"announce", "ask">>}
      /\ Doing("ask") => script \in {<<"ask">>}
      /\ Doing("clear") => script \in {<<"clear">>, <<"clear", "copy", "apply", "resume">>}
      /\ Doing("join") => script \in {<<"join">>, <<"join", "copy", "apply", "resume">>}
  BY Heads DEF Doing, Scripts, Plain, Starting, Setting, Ending
<1>2. /\ Tail(<<"look", "copy", "apply", "resume">>) = <<"copy", "apply", "resume">>
      /\ Tail(<<"resume">>) = <<>>
      /\ Tail(<<"copy", "apply">>) = <<"apply">>
      /\ Tail(<<"copy", "apply", "resume">>) = <<"apply", "resume">>
      /\ Tail(<<"apply">>) = <<>>
      /\ Tail(<<"apply", "resume">>) = <<"resume">>
      /\ Tail(<<"run">>) = <<>>
      /\ Tail(<<"run", "ask">>) = <<"ask">>
      /\ Tail(<<"spawn", "announce">>) = <<"announce">>
      /\ Tail(<<"spawn", "announce", "ask">>) = <<"announce", "ask">>
      /\ Tail(<<"announce">>) = <<>>
      /\ Tail(<<"announce", "ask">>) = <<"ask">>
      /\ Tail(<<"ask">>) = <<>>
      /\ Tail(<<"clear">>) = <<>>
      /\ Tail(<<"clear", "copy", "apply", "resume">>) = <<"copy", "apply", "resume">>
      /\ Tail(<<"join">>) = <<>>
      /\ Tail(<<"join", "copy", "apply", "resume">>) = <<"copy", "apply", "resume">>
  BY Heads
<1>3. Doing("look") => Leaves(<<"look", "copy", "apply", "resume">>, <<"copy", "apply", "resume">>)
  BY <1>1, <1>2, Zenon DEF Leaves
<1>4. Doing("resume") => Leaves(<<"resume">>, <<>>)
  BY <1>1, <1>2, Zenon DEF Leaves
<1>5. Doing("copy") => \/ Leaves(<<"copy", "apply">>, <<"apply">>)
                       \/ Leaves(<<"copy", "apply", "resume">>, <<"apply", "resume">>)
  BY <1>1, <1>2, Zenon DEF Leaves
<1>6. Doing("apply") => \/ Leaves(<<"apply">>, <<>>)
                        \/ Leaves(<<"apply", "resume">>, <<"resume">>)
  BY <1>1, <1>2, Zenon DEF Leaves
<1>7. Doing("run") => \/ Leaves(<<"run">>, <<>>)
                      \/ Leaves(<<"run", "ask">>, <<"ask">>)
  BY <1>1, <1>2, Zenon DEF Leaves
<1>8. Doing("spawn") => \/ Leaves(<<"spawn", "announce">>, <<"announce">>)
                        \/ Leaves(<<"spawn", "announce", "ask">>, <<"announce", "ask">>)
  BY <1>1, <1>2, Zenon DEF Leaves
<1>9. Doing("announce") => \/ Leaves(<<"announce">>, <<>>)
                           \/ Leaves(<<"announce", "ask">>, <<"ask">>)
  BY <1>1, <1>2, Zenon DEF Leaves
<1>10. Doing("ask") => Leaves(<<"ask">>, <<>>)
  BY <1>1, <1>2, Zenon DEF Leaves
<1>11. Doing("clear") => \/ Leaves(<<"clear">>, <<>>)
                         \/ Leaves(<<"clear", "copy", "apply", "resume">>, <<"copy", "apply", "resume">>)
  BY <1>1, <1>2, Zenon DEF Leaves
<1>12. Doing("join") => \/ Leaves(<<"join">>, <<>>)
                        \/ Leaves(<<"join", "copy", "apply", "resume">>, <<"copy", "apply", "resume">>)
  BY <1>1, <1>2, Zenon DEF Leaves
<1>13. QED
  BY <1>3, <1>4, <1>5, <1>6, <1>7, <1>8, <1>9, <1>10, <1>11, <1>12, Zenon

\* Where those belong.
LEMMA Belong ==
  /\ {<<>>, <<"run">>, <<"ask">>, <<"run", "ask">>, <<"clear">>, <<"join">>} \subseteq Plain
  /\ <<"look", "copy", "apply", "resume">> \in Plain /\ <<"clear", "copy", "apply", "resume">> \in Plain
  /\ {<<"spawn", "announce">>, <<"announce">>} \subseteq Starting
  /\ {<<"spawn", "announce", "ask">>, <<"announce", "ask">>} \subseteq Starting
  /\ <<"copy", "apply">> \in Setting /\ <<"apply">> \in Setting
  /\ <<"join", "copy", "apply", "resume">> \in Ending /\ <<"copy", "apply", "resume">> \in Ending
  /\ <<"apply", "resume">> \in Ending /\ <<"resume">> \in Ending
  BY DEF Plain, Starting, Setting, Ending

-----------------------------------------------------------------------------
\* At first no handler runs and no acquisition does.
LEMMA ModeInvInit == Init => ModeInv
  BY Belong, Kinds DEF Init, ModeInv, Scripts

\* The loop changes neither the mode nor the timebase, and only ever stops
\* running.
LEMMA LoopKeepsMode == ModeInv /\ Loop => ModeInv'
<1> SUFFICES ASSUME ModeInv, Loop PROVE ModeInv'
  OBVIOUS
<1>1. UNCHANGED <<timebase, mainVars, joinable, mode>>
  BY DEF Loop, LoopTop, LoopBreaks, LoopTrigger, LoopPublish, LoopAdvance, LoopCheck, LoopRetire,
         settingVars, threadVars, shotVars
<1> DEFINE G == /\ running' \in BOOLEAN /\ (running' => running)
                  /\ loop # "none" /\ loop' # "none"
                  /\ (loop' \in {"done", "retire"} => ~running')
                  /\ (running' => state' = state \/ state' \in {"Armed", "Triggered"})
<1>2. G
  <2>1. CASE LoopTop
    BY <2>1 DEF ModeInv, LoopTop
  <2>2. CASE LoopBreaks
    BY <2>2 DEF ModeInv, LoopBreaks
  <2>3. CASE LoopTrigger
    BY <2>3 DEF ModeInv, LoopTrigger
  <2>4. CASE LoopPublish
    BY <2>4 DEF ModeInv, LoopPublish
  <2>5. CASE LoopAdvance
    BY <2>5 DEF ModeInv, LoopAdvance
  <2>6. CASE LoopCheck
    BY <2>6 DEF ModeInv, LoopCheck
  <2>7. CASE LoopRetire
    BY <2>7 DEF ModeInv, LoopRetire
  <2>8. QED
    BY <2>1, <2>2, <2>3, <2>4, <2>5, <2>6, <2>7 DEF Loop
<1>3. QED
  BY <1>1, <1>2 DEF ModeInv, mainVars

\* A handler begins with its whole script before it, and nothing stopped yet.
LEMMA HandlersKeepMode == ModeInv /\ Handlers => ModeInv'
<1> SUFFICES ASSUME ModeInv, Handlers PROVE ModeInv'
  OBVIOUS
<1>1. script = <<>> /\ UNCHANGED <<timebase, state, threadVars, mode>>
  BY DEF Handlers, Run, Stop, Single, ToggleRunStop, Verb, Handler, ForceTrigger, Autoset, AutosetDone,
         Set, settingVars, shotVars
<1>2. \/ script' \in Plain
      \/ script' \in Setting /\ edit'.of \notin Restarting
  <2>1. CASE \E e \in Edits : Set(e)
    BY <2>1, Belong DEF Set, Handler, Restarting
  <2>2. CASE Run \/ Stop \/ Single \/ ToggleRunStop
    BY <2>2, Belong DEF Run, Stop, Single, ToggleRunStop, Verb, Handler, SingleSteps
  <2>3. CASE ForceTrigger \/ Autoset \/ AutosetDone
    BY <1>1, <2>3, Belong DEF ForceTrigger, Autoset, AutosetDone, mainVars
  <2>4. QED
    BY <2>1, <2>2, <2>3 DEF Handlers
<1>3. script \in Plain
  BY <1>1, Belong
<1>4. QED
  BY <1>1, <1>2, <1>3, Kinds DEF ModeInv, threadVars, Scripts

\* Each step of a handler keeps what the rest of its script says of the mode.
LEMMA StepsKeepMode == ModeInv /\ Steps => ModeInv'
<1> SUFFICES ASSUME ModeInv, Steps PROVE ModeInv'
  OBVIOUS
<1>0. script \in Scripts
  BY DEF ModeInv
<1>1. CASE Look
  <2>1. UNCHANGED <<timebase, state, threadVars, mode, edit>>
    BY <1>1 DEF Look, settingVars, shotVars
  <2>2. script = <<"look", "copy", "apply", "resume">> /\ Tail(script) = <<"copy", "apply", "resume">>
    BY <1>0, <1>1, DoingIs DEF Look, Leaves
  <2>3. CASE WasRunning
    <3>1. script' = <<"clear", "copy", "apply", "resume">>
      BY <1>1, <2>2, <2>3, Joined DEF Look
    <3>2. script' \in Plain /\ script \in Plain
      BY <2>2, <3>1, Belong
    <3>3. QED
      BY <2>1, <3>2, Kinds DEF ModeInv, Scripts, threadVars
  <2>4. CASE ~WasRunning
    <3>1. script' \in Ending /\ script \in Plain
      BY <1>1, <2>2, <2>4, Belong DEF Look
    <3>2. ~running
      BY <2>4, <3>1, Kinds DEF ModeInv, WasRunning
    <3>3. QED
      BY <2>1, <3>1, <3>2, Kinds DEF ModeInv, Scripts, threadVars
  <2>5. QED
    BY <2>3, <2>4
<1>2. CASE Resume
  <2>1. UNCHANGED <<timebase, state, threadVars, mode, edit>>
    BY <1>2 DEF Resume, settingVars, shotVars, threadVars
  <2>2. script \in Ending /\ script' \in Plain
    BY <1>0, <1>2, DoingIs, Belong DEF Resume, Leaves
  <2>3. QED
    BY <2>1, <2>2, Kinds DEF ModeInv, Scripts, threadVars
<1>3. CASE Copy
  <2>1. UNCHANGED <<timebase, state, threadVars, mode>> /\ edit'.of = edit.of
    BY <1>3 DEF Copy, settingVars, shotVars
  <2>2. \/ script \in Setting /\ script' \in Setting
        \/ script \in Ending /\ script' \in Ending
    BY <1>0, <1>3, DoingIs, Belong DEF Copy, Leaves
  <2>3. QED
    BY <2>1, <2>2, Kinds DEF ModeInv, Scripts, threadVars
<1>4. CASE Apply
  <2>1. UNCHANGED <<state, threadVars, mode>>
    BY <1>4 DEF Apply, shotVars
  <2>2. \/ script \in Setting /\ script' \in Plain
        \/ script \in Ending /\ script' \in Ending
    BY <1>0, <1>4, DoingIs, Belong DEF Apply, Leaves
  <2>3. script \in Setting => timebase' = timebase
    BY <1>4 DEF Apply, ModeInv, Restarting
  <2>4. QED
    BY <2>1, <2>2, <2>3, Kinds DEF ModeInv, Scripts, threadVars
<1>5. CASE Begin
  <2>1. UNCHANGED <<timebase, state, threadVars, mode, edit>>
    BY <1>5 DEF Begin, OnlyScript, settingVars, shotVars
  <2>2. script \in Plain
    BY <1>0, <1>5, DoingIs, Belong DEF Begin, Leaves
  <2>3. script' \in Plain \/ (script' \in Starting /\ ~running)
    <3>1. Tail(script) \in {<<>>, <<"ask">>}
      BY <1>0, <1>5, DoingIs DEF Begin, Leaves
    <3>2. CASE running
      BY <1>5, <3>1, <3>2, Belong DEF Begin
    <3>3. CASE ~running
      BY <1>5, <3>1, <3>3, Belong, Joined DEF Begin
    <3>4. QED
      BY <3>2, <3>3
  <2>4. QED
    BY <2>1, <2>2, <2>3, Kinds DEF ModeInv, Scripts, threadVars
<1>6. CASE Spawn
  <2>1. /\ UNCHANGED <<timebase, state, edit>> /\ mode' = timebase.mode
        /\ running' = TRUE /\ joinable' = TRUE /\ loop' = "top"
    BY <1>6 DEF Spawn, settingVars
  <2>2. script' \in Starting
    BY <1>0, <1>6, DoingIs, Belong DEF Spawn, Leaves
  <2>3. QED
    BY <2>1, <2>2, Kinds DEF ModeInv, Scripts
<1>7. CASE Announce
  <2>1. UNCHANGED <<timebase, threadVars, mode, edit>> /\ state' \in {"Running", "Armed"}
    BY <1>7 DEF Announce, settingVars, shotVars
  <2>2. script' \in Plain
    BY <1>0, <1>7, DoingIs, Belong DEF Announce, Leaves
  <2>3. QED
    BY <2>1, <2>2, Kinds DEF ModeInv, Scripts, threadVars
<1>8. CASE Ask
  <2>1. UNCHANGED <<timebase, state, threadVars, mode, edit>>
    BY <1>8 DEF Ask, settingVars
  <2>2. script \in Plain /\ script' \in Plain
    BY <1>0, <1>8, DoingIs, Belong DEF Ask, Leaves
  <2>3. QED
    BY <2>1, <2>2, Kinds DEF ModeInv, Scripts, threadVars
<1>9. CASE Clear
  <2>1. UNCHANGED <<timebase, state, joinable, loop, mode, edit>> /\ running' = FALSE
    BY <1>9 DEF Clear, settingVars, shotVars
  <2>2. script' \in Plain \cup Ending
    <3>1. Tail(script) \in {<<>>, <<"copy", "apply", "resume">>}
      BY <1>0, <1>9, DoingIs DEF Clear, Leaves
    <3>2. <<"join">> \o Tail(script) \in Plain \cup Ending /\ Tail(script) \in Plain \cup Ending
      BY <3>1, Joined, Belong
    <3>3. QED
      BY <1>9, <3>2 DEF Clear
  <2>3. QED
    BY <2>1, <2>2, Kinds DEF ModeInv, Scripts
<1>10. CASE Join
  <2>1. UNCHANGED <<timebase, running, mode, edit>> /\ joinable' = FALSE /\ loop' = "none" /\ ~running
    BY <1>10 DEF Join, settingVars, shotVars, ModeInv
  <2>2. script' \in Plain \cup Ending
    BY <1>0, <1>10, DoingIs, Belong DEF Join, Leaves
  <2>3. QED
    BY <2>1, <2>2, Kinds DEF ModeInv, Scripts
<1>11. QED
  BY <1>1, <1>2, <1>3, <1>4, <1>5, <1>6, <1>7, <1>8, <1>9, <1>10 DEF Steps

\* Every step keeps the mode and the handler's script in accord.
LEMMA ModeInvNext == ModeInv /\ [Next]_vars => ModeInv'
<1>1. ModeInv /\ Worker => ModeInv'
  BY DEF Worker, ModeInv, threadVars, shotVars, mainVars
<1>2. ModeInv /\ UNCHANGED vars => ModeInv'
  BY DEF ModeInv, vars, settingVars, threadVars, shotVars, mainVars
<1>3. QED
  BY <1>1, <1>2, LoopKeepsMode, HandlersKeepMode, StepsKeepMode DEF Next

\* setAcquisitionMode(), setRecordLength().
THEOREM ActionsModeHonoured == Spec => []ModeHonoured
<1>1. ModeInv => ModeHonoured
  BY DEF ModeInv, ModeHonoured
<1>2. QED
  BY <1>1, ModeInvInit, ModeInvNext, PTL DEF Spec

-----------------------------------------------------------------------------
\* What the trigger finds, whatever the time the search starts at.

Trigs == [mode : TriggerModes, slope : Slopes, level : Levels \cup {Fitted}]
Lines == [slope : Slopes, level : Levels \cup {Fitted}]
Phases == 0 .. Period - 1

\* Crosses and TriggerTime, of any signal and any trigger.
Sample(s, i) == s[i % Points]
Between(t, a, b) == \/ t.slope \in {"Rising", "Either"} /\ a < t.level /\ b >= t.level
                    \/ t.slope \in {"Falling", "Either"} /\ a >= t.level /\ b < t.level
Sign(x) == IF x > 0 THEN 1 ELSE -1
Part(t, a, b) == (Sign(b - a) * (t.level - a) * Step) \div (Sign(b - a) * (b - a))
CrossesIn(s, t, i) == Between(t, Sample(s, i - 1), Sample(s, i))
PartIn(s, t, i) == Part(t, Sample(s, i - 1), Sample(s, i))
TimeIn(s, t, i) == (i - 1) * Step + PartIn(s, t, i)

\* A sweep that starts at one of the crossings of the period.
InPhase(s, t, at) == \E i \in 1 .. Points : CrossesIn(s, t, i) /\ at = TimeIn(s, t, i) % Period

\* The phase of the crossing that a search from time a finds first.
First(s, t, a, k) == /\ k \in 1 .. 2 * Points /\ CrossesIn(s, t, k) /\ k * Step >= a
                     /\ \A l \in 1 .. 2 * Points : CrossesIn(s, t, l) /\ l * Step >= a => k <= l
Finds(s, t, a, at) == \E k \in 1 .. 2 * Points : First(s, t, a, k) /\ at = TimeIn(s, t, k) % Period

\* Where the search resumes after a sweep of that phase.
Half == Period \div 2
After(at) == (at + Half) % Period

\* Division with rest, as the standard module defines it.
LEMMA DivMod ==
  ASSUME NEW p \in Nat \ {0}, NEW x \in Int
  PROVE  x \div p \in Int /\ x % p \in 0 .. p - 1 /\ x = p * (x \div p) + (x % p)
  OBVIOUS

\* A multiple of p that is less than p away from zero is zero.
LEMMA SmallMultiple ==
  ASSUME NEW p \in Nat \ {0}, NEW d \in Int, p * d < p, 0 - p < p * d
  PROVE  d = 0
<1>1. CASE d >= 1
  <2>1. p * d >= p
    BY <1>1
  <2>2. QED
    BY <2>1
<1>2. CASE d <= 0 - 1
  <2>1. p * d <= 0 - p
    BY <1>2
  <2>2. QED
    BY <2>1
<1>3. QED
  BY <1>1, <1>2

\* Two numbers that are a period apart leave the same rest.
LEMMA OneRest ==
  ASSUME NEW p \in Nat \ {0}, NEW q \in Int, NEW u \in Int, NEW r \in 0 .. p - 1, NEW s \in 0 .. p - 1,
         p * q + r + p = p * u + s
  PROVE  r = s
<1> DEFINE d == u - q - 1
<1>1. d \in Int /\ p * d = p * u - p * q - p
  OBVIOUS
<1>2. p * d = r - s
  BY <1>1
<1> HIDE DEF d
<1>3. p * d < p /\ 0 - p < p * d
  BY <1>2
<1>4. d = 0
  BY <1>1, <1>3, SmallMultiple
<1>5. QED
  BY <1>2, <1>4

\* A number modulo p is not changed by a whole period.
LEMMA ModShift ==
  ASSUME NEW p \in Nat \ {0}, NEW x \in Int
  PROVE  (x + p) % p = x % p
<1> DEFINE q == x \div p
           r == x % p
           u == (x + p) \div p
           s == (x + p) % p
<1>1. x + p \in Int
  OBVIOUS
<1>2. x = p * q + r /\ q \in Int /\ r \in 0 .. p - 1
  BY DivMod
<1>3. x + p = p * u + s /\ u \in Int /\ s \in 0 .. p - 1
  BY <1>1, DivMod
<1>4. p * q + r + p = p * u + s
  BY <1>2, <1>3
<1> HIDE DEF q, r, u, s
<1>5. r = s
  BY <1>2, <1>3, <1>4, OneRest
<1>6. QED
  BY <1>5 DEF r, s

\* A number has one rest.
LEMMA SameRest ==
  ASSUME NEW p \in Nat \ {0}, NEW q \in Int, NEW u \in Int, NEW r \in 0 .. p - 1, NEW s \in 0 .. p - 1,
         p * q + r = p * u + s
  PROVE  r = s
<1> DEFINE d == q - u
<1>1. d \in Int /\ p * d = p * q - p * u
  OBVIOUS
<1>2. p * d = s - r
  BY <1>1
<1> HIDE DEF d
<1>3. p * d < p /\ 0 - p < p * d
  BY <1>2
<1>4. d = 0
  BY <1>1, <1>3, SmallMultiple
<1>5. QED
  BY <1>2, <1>4

\* A rest is as good as the number it is of.
LEMMA ModAdd ==
  ASSUME NEW p \in Nat \ {0}, NEW x \in Int, NEW h \in Int
  PROVE  (x + h) % p = ((x % p) + h) % p
<1> DEFINE q == x \div p
           r == x % p
           u == (x + h) \div p
           c == (x + h) % p
           v == (r + h) \div p
           d == (r + h) % p
<1>1. x = p * q + r /\ q \in Int /\ r \in 0 .. p - 1
  BY DivMod
<1>2. x + h \in Int /\ r + h \in Int
  BY <1>1
<1>3. x + h = p * u + c /\ u \in Int /\ c \in 0 .. p - 1
  BY <1>2, DivMod
<1>4. r + h = p * v + d /\ v \in Int /\ d \in 0 .. p - 1
  BY <1>2, DivMod
<1> HIDE DEF q, r, u, c, v, d
<1>5. p * (q + v) = p * q + p * v /\ q + v \in Int
  BY <1>1, <1>4
<1>6. p * u + c = p * (q + v) + d
  BY <1>1, <1>3, <1>4, <1>5
<1>7. c = d
  BY <1>3, <1>4, <1>5, <1>6, SameRest
<1>8. QED
  BY <1>7 DEF r, c, d

\* The rest of a number below twice p.
LEMMA ModBelow ==
  ASSUME NEW p \in Nat \ {0}, NEW x \in 0 .. 2 * p - 1
  PROVE  x % p \in 0 .. p - 1 /\ (x % p = x \/ x % p = x - p)
<1> DEFINE q == x \div p
           r == x % p
<1>1. x = p * q + r /\ q \in Int /\ r \in 0 .. p - 1
  BY DivMod
<1> HIDE DEF q, r
<1>2. ASSUME q <= 0 - 1 PROVE FALSE
  <2>1. p * q <= 0 - p
    BY <1>1, <1>2
  <2>2. QED
    BY <1>1, <2>1
<1>3. ASSUME q >= 2 PROVE FALSE
  <2>1. p * q >= 2 * p
    BY <1>1, <1>3
  <2>2. QED
    BY <1>1, <2>1
<1>4. q = 0 \/ q = 1
  BY <1>1, <1>2, <1>3
<1>5. QED
  BY <1>1, <1>4 DEF r

\* The period of a signal in samples and in time.
LEMMA Sizes == Points \in Nat \ {0} /\ Step \in Nat \ {0} /\ Period \in Nat \ {0} /\ Period = Points * Step
<1>1. Points \in Nat \ {0} /\ Step \in Nat \ {0}
  BY ActionsAssumption
<1>2. \A a, b \in Nat \ {0} : a * b \in Nat \ {0}
  OBVIOUS
<1>3. Points * Step \in Nat \ {0}
  BY <1>1, <1>2
<1>4. QED
  BY <1>1, <1>3 DEF Period

\* A sample is a number.
LEMMA SampleTyped ==
  ASSUME NEW s \in Signals, NEW i \in Int
  PROVE  Sample(s, i) \in Int
<1>1. s \in [0 .. Points - 1 -> Int]
  BY ActionsAssumption
<1>2. i % Points \in 0 .. Points - 1
  BY Sizes, DivMod
<1>3. QED
  BY <1>1, <1>2 DEF Sample

\* The signal repeats after Points samples.
LEMMA SamplePeriodic ==
  ASSUME NEW s, NEW i \in Int
  PROVE  Sample(s, i + Points) = Sample(s, i)
  BY Sizes, ModShift DEF Sample

\* A part of a step is a part of it.
LEMMA PartOfStep ==
  ASSUME NEW d \in Nat \ {0}, NEW m \in 0 .. d, NEW w \in Nat
  PROVE  m * w \in Int /\ (m * w) \div d \in 0 .. w
<1> DEFINE n == m * w
           q == n \div d
           r == n % d
<1>1. n \in Int /\ n >= 0 /\ n <= d * w
  <2>1. m * w \in Int /\ m * w >= 0
    OBVIOUS
  <2>2. m * w <= d * w
    OBVIOUS
  <2>3. QED
    BY <2>1, <2>2
<1>2. n = d * q + r /\ q \in Int /\ r \in 0 .. d - 1
  BY <1>1, DivMod
<1> HIDE DEF n, q, r
<1>3. ASSUME q <= 0 - 1 PROVE FALSE
  <2>1. d * q <= 0 - d
    BY <1>2, <1>3
  <2>2. QED
    BY <1>1, <1>2, <2>1
<1>4. ASSUME q >= w + 1 PROVE FALSE
  <2>1. d * q >= d * (w + 1)
    BY <1>2, <1>4
  <2>2. d * (w + 1) = d * w + d
    OBVIOUS
  <2>3. d * w \in Int /\ d * q \in Int
    BY <1>2
  <2>4. QED
    BY <1>1, <1>2, <2>1, <2>2, <2>3
<1>5. q \in 0 .. w
  BY <1>2, <1>3, <1>4
<1>6. QED
  BY <1>1, <1>5 DEF n, q

\* A crossing lies between its sample and the one before.
LEMMA CrossingPart ==
  ASSUME NEW s \in Signals, NEW t \in Lines, NEW i \in Int, CrossesIn(s, t, i)
  PROVE  PartIn(s, t, i) \in 0 .. Step
<1>1. t.level \in Int /\ Step \in Nat
  <2>1. t.level \in Levels \cup {Fitted}
    BY DEF Lines
  <2>2. Levels \subseteq Int /\ Fitted \in Int
    BY ActionsAssumption
  <2>3. t.level \in Int
    BY <2>1, <2>2
  <2>4. QED
    BY <2>3, Sizes
<1>2. i - 1 \in Int
  OBVIOUS
<1> DEFINE a == Sample(s, i - 1)
           b == Sample(s, i)
<1>3. a \in Int /\ b \in Int
  BY <1>2, SampleTyped
<1>4. (a < t.level /\ b >= t.level) \/ (a >= t.level /\ b < t.level)
  BY DEF CrossesIn, Between
<1>5. PartIn(s, t, i) = (Sign(b - a) * (t.level - a) * Step) \div (Sign(b - a) * (b - a))
  BY DEF PartIn, Part
<1> HIDE DEF a, b
<1> DEFINE d == Sign(b - a) * (b - a)
           m == Sign(b - a) * (t.level - a)
<1>6. d \in Nat \ {0} /\ m \in 0 .. d
  <2>1. CASE b > a
    <3>1. Sign(b - a) = 1
      BY <1>3, <2>1 DEF Sign
    <3>2. d = b - a /\ m = t.level - a
      BY <1>1, <1>3, <3>1
    <3>3. QED
      BY <1>1, <1>3, <1>4, <2>1, <3>2
  <2>2. CASE b < a
    <3>1. Sign(b - a) = -1
      BY <1>3, <2>2 DEF Sign
    <3>2. d = a - b /\ m = a - t.level
      BY <1>1, <1>3, <3>1
    <3>3. QED
      BY <1>1, <1>3, <1>4, <2>2, <3>2
  <2>3. QED
    BY <1>1, <1>3, <1>4, <2>1, <2>2
<1>7. PartIn(s, t, i) = (m * Step) \div d
  BY <1>5
<1> HIDE DEF d, m
<1>8. QED
  BY <1>1, <1>6, <1>7, PartOfStep

\* The time of a crossing is a number.
LEMMA CrossingIsTimed ==
  ASSUME NEW s \in Signals, NEW t \in Lines, NEW i \in Int, CrossesIn(s, t, i)
  PROVE  TimeIn(s, t, i) \in Int
<1>1. PartIn(s, t, i) \in Int
  BY CrossingPart, Sizes
<1>2. (i - 1) * Step \in Int
  BY Sizes
<1>3. QED
  BY <1>1, <1>2 DEF TimeIn

\* The same two samples make the same crossing.
LEMMA SameSamples ==
  ASSUME NEW s, NEW t, NEW i, NEW j,
         Sample(s, j) = Sample(s, i), Sample(s, j - 1) = Sample(s, i - 1)
  PROVE  /\ CrossesIn(s, t, j) <=> CrossesIn(s, t, i)
         /\ PartIn(s, t, j) = PartIn(s, t, i)
         /\ TimeIn(s, t, j) = (j - 1) * Step + PartIn(s, t, i)
  BY DEF CrossesIn, PartIn, TimeIn

\* A signal that crosses the level crosses it again one period later.
LEMMA NextPeriod ==
  ASSUME NEW s \in Signals, NEW t \in Lines, NEW i \in Int, NEW j, j = i + Points
  PROVE  /\ CrossesIn(s, t, j) <=> CrossesIn(s, t, i)
         /\ CrossesIn(s, t, i) => TimeIn(s, t, j) = TimeIn(s, t, i) + Period
<1>1. i - 1 \in Int /\ j - 1 = (i - 1) + Points
  BY Sizes
<1>2. Sample(s, j) = Sample(s, i) /\ Sample(s, j - 1) = Sample(s, i - 1)
  BY <1>1, SamplePeriodic
<1>3. CrossesIn(s, t, j) <=> CrossesIn(s, t, i)
  BY <1>2, SameSamples
<1>4. TimeIn(s, t, j) = (j - 1) * Step + PartIn(s, t, i)
  BY <1>2, SameSamples
<1>5. (j - 1) * Step = (i - 1) * Step + Period
  <2>1. \A x, y, z \in Int : (x + y) * z = x * z + y * z
    OBVIOUS
  <2>2. QED
    BY <1>1, <2>1, Sizes
<1>6. ASSUME CrossesIn(s, t, i) PROVE TimeIn(s, t, j) = TimeIn(s, t, i) + Period
  <2> DEFINE x == (i - 1) * Step
             y == (j - 1) * Step
             z == PartIn(s, t, i)
  <2>1. x \in Int /\ y = x + Period
    BY <1>1, <1>5, Sizes
  <2>2. TimeIn(s, t, i) = x + z /\ TimeIn(s, t, j) = y + z
    BY <1>4 DEF TimeIn
  <2>3. z \in Int
    BY <1>6, CrossingPart, Sizes
  <2> HIDE DEF x, y, z
  <2>4. QED
    BY <2>1, <2>2, <2>3, Sizes
<1>7. QED
  BY <1>3, <1>6

\* A crossing of the second period searched is one of the first, a period later.
LEMMA AnyCrossingInPhase ==
  ASSUME NEW s \in Signals, NEW t \in Lines, NEW i \in 1 .. 2 * Points, CrossesIn(s, t, i)
  PROVE  TimeIn(s, t, i) \in Int /\ InPhase(s, t, TimeIn(s, t, i) % Period)
<1>1. i \in Int
  BY Sizes
<1>2. TimeIn(s, t, i) \in Int
  BY <1>1, CrossingIsTimed
<1>3. CASE i <= Points
  <2>1. i \in 1 .. Points
    BY <1>3, Sizes
  <2>2. QED
    BY <1>2, <2>1 DEF InPhase
<1>4. CASE i > Points
  <2> DEFINE j == i - Points
  <2>1. j \in 1 .. Points /\ j \in Int /\ j + Points = i
    BY <1>4, Sizes
  <2> HIDE DEF j
  <2>2. CrossesIn(s, t, j) /\ TimeIn(s, t, i) = TimeIn(s, t, j) + Period
    BY <2>1, NextPeriod
  <2>3. TimeIn(s, t, j) \in Int
    BY <2>1, <2>2, CrossingIsTimed
  <2>4. TimeIn(s, t, i) % Period = TimeIn(s, t, j) % Period
    BY <2>2, <2>3, ModShift, Sizes
  <2>5. QED
    BY <1>2, <2>1, <2>2, <2>4 DEF InPhase
<1>5. QED
  BY <1>1, <1>3, <1>4, Sizes

\* A nonempty set of naturals has a least member.
LEMMA LeastIn ==
  ASSUME NEW T, T \subseteq Nat, T # {}
  PROVE  \E x \in T : \A y \in T : x <= y
<1> DEFINE R == OpToRel(<, Nat)
<1>1. R = {ss \in Nat \X Nat : ss[1] < ss[2]}
  BY DEF OpToRel
<1>2. IsWellFoundedOn(R, Nat)
  BY NatLessThanWellFounded
<1> HIDE DEF R
<1>3. PICK x \in T : \A y \in T : ~ (<<y, x>> \in R)
  BY <1>2, WFMin
<1>4. ASSUME NEW y \in T PROVE x <= y
  <2>1. x \in Nat /\ y \in Nat /\ ~ (<<y, x>> \in R)
    BY <1>3
  <2>2. y < x => <<y, x>> \in R
    BY <1>1, <2>1
  <2>3. QED
    BY <2>1, <2>2
<1>5. QED
  BY <1>4

\* The search of the iteration is that of the signal and the trigger at hand.
LEMMA SearchIs ==
  /\ \A i : Crosses(i) <=> CrossesIn(signal, Line, i)
  /\ \A i : TimeOf(i) = TimeIn(signal, Line, i)
  /\ trigger \in Trigs => Line \in Lines
<1>1. \A i : Crosses(i) <=> CrossesIn(signal, Line, i)
  BY DEF Crosses, Rises, Falls, At, CrossesIn, Between, Sample, Line
<1>2. \A i : TimeOf(i) = TimeIn(signal, Line, i)
  BY DEF TimeOf, At, Sample, TimeIn, PartIn, Part, Sign, Line
<1>3. trigger \in Trigs => Line \in Lines
  BY DEF Trigs, Lines, Line
<1>4. QED
  BY <1>1, <1>2, <1>3

\* _findTriggerTime() finds a crossing when the signal has one.
LEMMA SearchFinds ==
  ASSUME signal \in Signals, trigger \in Trigs, after \in Phases,
         NEW i \in 1 .. Points, CrossesIn(signal, Line, i)
  PROVE  Crossings # {}
<1> DEFINE j == i + Points
<1>1. i \in Int /\ j \in 1 .. 2 * Points
  BY Sizes
<1>2. Crosses(j)
  BY <1>1, NextPeriod, SearchIs
<1>3. j * Step >= after
  <2>1. \A a, b, c \in Int : (a + b) * c = a * c + b * c
    OBVIOUS
  <2>2. j * Step = i * Step + Period
    BY <1>1, <2>1, Sizes
  <2>3. i * Step \in Nat
    BY <1>1, Sizes
  <2>4. QED
    BY <2>2, <2>3, Sizes DEF Phases
<1>4. j \in Crossings
  BY <1>1, <1>2, <1>3 DEF Crossings
<1>5. QED
  BY <1>4

\* What it finds is the first crossing from where it began, and a crossing of the period.
LEMMA SearchResult ==
  ASSUME signal \in Signals, trigger \in Trigs, Crossings # {}
  PROVE  /\ TriggerTime \in Int
         /\ InPhase(signal, Line, TriggerTime % Period)
         /\ Finds(signal, Line, after, TriggerTime % Period)
<1>1. Crossings \subseteq 1 .. 2 * Points /\ Crossings \subseteq Nat
  BY Sizes DEF Crossings
<1>2. PICK x \in Crossings : \A y \in Crossings : x <= y
  BY <1>1, LeastIn
<1>3. Min(Crossings) \in Crossings /\ \A y \in Crossings : Min(Crossings) <= y
  BY <1>2 DEF Min
<1> DEFINE k == Min(Crossings)
<1>4. TriggerTime = TimeIn(signal, Line, k)
  BY SearchIs DEF TriggerTime
<1> HIDE DEF k
<1>5. k \in Crossings /\ \A y \in Crossings : k <= y
  BY <1>3 DEF k
<1>6. k \in 1 .. 2 * Points /\ CrossesIn(signal, Line, k) /\ k * Step >= after
  BY <1>1, <1>5, SearchIs DEF Crossings
<1>7. First(signal, Line, after, k)
  BY <1>5, <1>6, SearchIs DEF First, Crossings
<1>8. QED
  BY <1>4, <1>6, <1>7, AnyCrossingInPhase, SearchIs DEF Finds

\* It finds one and the same.
LEMMA OneFind ==
  ASSUME NEW s, NEW t, NEW a, NEW x, NEW y, Finds(s, t, a, x), Finds(s, t, a, y)
  PROVE  x = y
<1>1. PICK k \in 1 .. 2 * Points : First(s, t, a, k) /\ x = TimeIn(s, t, k) % Period
  BY DEF Finds
<1>2. PICK l \in 1 .. 2 * Points : First(s, t, a, l) /\ y = TimeIn(s, t, l) % Period
  BY DEF Finds
<1>3. k <= l /\ l <= k
  BY <1>1, <1>2 DEF First
<1>4. k = l
  BY <1>3, Sizes
<1>5. QED
  BY <1>1, <1>2, <1>4

\* Two crossings of which each is found from half a period after the other are half a
\* period apart: the arithmetic of it.
LEMMA HalfArithmetic ==
  ASSUME NEW p \in Nat \ {0}, NEW w \in Nat \ {0}, NEW h \in Nat, 2 * h = p \/ 2 * h = p - 1,
         NEW ei \in Nat, NEW ej \in Nat, w <= ei, w <= ej, ei <= p, ej <= p, ei + w <= ej \/ ej + w <= ei,
         NEW ti \in Nat, NEW tj \in Nat, ei - w <= ti, ti <= ei, ej - w <= tj, tj <= ej,
         NEW x \in 0 .. p - 1, NEW y \in 0 .. p - 1, x = ti \/ x = ti - p, y = tj \/ y = tj - p,
         NEW a \in 0 .. p - 1, NEW b \in 0 .. p - 1,
         a = x + h \/ a = x + h - p, b = y + h \/ b = y + h - p,
         NEW k \in Nat, NEW l \in Nat, k = ej \/ k = ej + p, l = ei \/ l = ei + p,
         k >= a, l >= b, ei >= a => k <= ei, k <= ei + p, ej >= b => l <= ej, l <= ej + p
  PROVE  \E d \in {x - y, y - x} : 2 * d \in p - 2 * w - 1 .. p + 2 * w + 1
<1>1. CASE x <= y
  <2>1. 2 * (y - x) >= p - 2 * w - 1 /\ 2 * (y - x) <= p + 2 * w + 1
    BY <1>1
  <2>2. QED
    BY <2>1
<1>2. CASE y <= x
  <2>1. 2 * (x - y) >= p - 2 * w - 1 /\ 2 * (x - y) <= p + 2 * w + 1
    BY <1>2
  <2>2. QED
    BY <2>1
<1>3. QED
  BY <1>1, <1>2

\* The crossing of the first period that one of the search is of.
LEMMA InFirstPeriod ==
  ASSUME NEW s \in Signals, NEW t \in Lines, NEW k \in 1 .. 2 * Points, CrossesIn(s, t, k)
  PROVE  \E i \in 1 .. Points :
           /\ CrossesIn(s, t, i) /\ CrossesIn(s, t, i + Points) /\ k \in {i, i + Points}
           /\ TimeIn(s, t, k) % Period = TimeIn(s, t, i) % Period
           /\ i * Step \in Nat /\ Step <= i * Step /\ i * Step <= Period /\ (i + Points) * Step = i * Step + Period
           /\ TimeIn(s, t, i) \in Nat /\ TimeIn(s, t, i) <= i * Step /\ i * Step - Step <= TimeIn(s, t, i)
<1> DEFINE i == IF k <= Points THEN k ELSE k - Points
<1>1. i \in 1 .. Points /\ (k = i \/ k = i + Points)
  BY Sizes
<1> HIDE DEF i
<1>2. i \in Int /\ i + Points \in Int
  BY <1>1, Sizes
<1>3. CrossesIn(s, t, i) /\ CrossesIn(s, t, i + Points)
  BY <1>1, <1>2, NextPeriod
<1>4. TimeIn(s, t, i) \in Int /\ TimeIn(s, t, i + Points) = TimeIn(s, t, i) + Period
  BY <1>2, <1>3, CrossingIsTimed, NextPeriod
<1>5. TimeIn(s, t, k) % Period = TimeIn(s, t, i) % Period
  BY <1>1, <1>4, ModShift, Sizes
<1>6. /\ i * Step \in Nat /\ Step <= i * Step /\ i * Step <= Period /\ (i + Points) * Step = i * Step + Period
      /\ (i - 1) * Step = i * Step - Step /\ (i - 1) * Step \in Nat
  <2>1. \A x, y, z \in Int : (x + y) * z = x * z + y * z
    OBVIOUS
  <2>2. (i + Points) * Step = i * Step + Period
    BY <1>2, <2>1, Sizes
  <2>3. i * Step \in Nat /\ (i - 1) * Step \in Nat /\ (i - 1) * Step = i * Step - Step
    BY <1>1, Sizes
  <2>4. i * Step <= Points * Step
    BY <1>1, Sizes
  <2>5. QED
    BY <2>2, <2>3, <2>4, Sizes
<1>7. PartIn(s, t, i) \in 0 .. Step
  BY <1>2, <1>3, CrossingPart
<1>8. TimeIn(s, t, i) = (i - 1) * Step + PartIn(s, t, i)
  BY DEF TimeIn
<1>9. TimeIn(s, t, i) \in Nat /\ TimeIn(s, t, i) <= i * Step /\ i * Step - Step <= TimeIn(s, t, i)
  BY <1>6, <1>7, <1>8, Sizes
<1>10. QED
  BY <1>1, <1>3, <1>5, <1>6, <1>9

\* A crossing found first is found no later than another that is there.
LEMMA NotLater ==
  ASSUME NEW s, NEW t, NEW a \in Int, NEW k, First(s, t, a, k),
         NEW l \in 1 .. 2 * Points, CrossesIn(s, t, l), l * Step >= a
  PROVE  k * Step <= l * Step
<1>1. k \in 1 .. 2 * Points /\ k <= l
  BY DEF First
<1>2. QED
  BY <1>1, Sizes

\* The phases a sweep resumes from are in the period.
LEMMA AfterIs ==
  ASSUME NEW x \in Phases
  PROVE  After(x) \in 0 .. Period - 1 /\ (After(x) = x + Half \/ After(x) = x + Half - Period)
<1>1. Half \in Nat /\ (2 * Half = Period \/ 2 * Half = Period - 1)
  BY Sizes DEF Half
<1> DEFINE z == x + Half
<1>2. z \in 0 .. 2 * Period - 1
  BY <1>1, Sizes DEF Phases
<1>3. After(x) = z % Period
  BY DEF After
<1> HIDE DEF z
<1>4. z % Period \in 0 .. Period - 1 /\ (z % Period = z \/ z % Period = z - Period)
  <2>1. Period \in Nat \ {0}
    BY Sizes
  <2>2. QED
    BY <1>2, <2>1, ModBelow, Zenon
<1>5. After(x) \in 0 .. Period - 1 /\ (After(x) = z \/ After(x) = z - Period)
  BY <1>3, <1>4, Zenon
<1>6. QED
  BY <1>1, <1>5, Sizes DEF z, Phases

\* Two phases that are found from one another in turn are half a period apart.
LEMMA BackAndForth ==
  ASSUME NEW s \in Signals, NEW t \in Lines, NEW x \in Phases, NEW y \in Phases, x # y,
         Finds(s, t, After(x), y), Finds(s, t, After(y), x)
  PROVE  HalfApart(x, y)
<1>1. PICK k \in 1 .. 2 * Points : First(s, t, After(x), k) /\ y = TimeIn(s, t, k) % Period
  BY DEF Finds
<1>2. PICK l \in 1 .. 2 * Points : First(s, t, After(y), l) /\ x = TimeIn(s, t, l) % Period
  BY DEF Finds
<1>3. CrossesIn(s, t, k) /\ k * Step >= After(x) /\ CrossesIn(s, t, l) /\ l * Step >= After(y)
  BY <1>1, <1>2 DEF First
<1>4. PICK j \in 1 .. Points :
           /\ CrossesIn(s, t, j) /\ CrossesIn(s, t, j + Points) /\ k \in {j, j + Points}
           /\ TimeIn(s, t, k) % Period = TimeIn(s, t, j) % Period
           /\ j * Step \in Nat /\ Step <= j * Step /\ j * Step <= Period /\ (j + Points) * Step = j * Step + Period
           /\ TimeIn(s, t, j) \in Nat /\ TimeIn(s, t, j) <= j * Step /\ j * Step - Step <= TimeIn(s, t, j)
  BY <1>3, InFirstPeriod
<1>5. PICK i \in 1 .. Points :
           /\ CrossesIn(s, t, i) /\ CrossesIn(s, t, i + Points) /\ l \in {i, i + Points}
           /\ TimeIn(s, t, l) % Period = TimeIn(s, t, i) % Period
           /\ i * Step \in Nat /\ Step <= i * Step /\ i * Step <= Period /\ (i + Points) * Step = i * Step + Period
           /\ TimeIn(s, t, i) \in Nat /\ TimeIn(s, t, i) <= i * Step /\ i * Step - Step <= TimeIn(s, t, i)
  BY <1>3, InFirstPeriod
<1> DEFINE ei == i * Step
           ej == j * Step
           ti == TimeIn(s, t, i)
           tj == TimeIn(s, t, j)
           a == After(x)
           b == After(y)
<1>6. ei + Step <= ej \/ ej + Step <= ei
  <2>1. i # j
    BY <1>1, <1>2, <1>4, <1>5
  <2>2. CASE i < j
    <3>1. (i + 1) * Step <= j * Step
      BY <2>2, Sizes
    <3>2. (i + 1) * Step = i * Step + Step
      BY Sizes
    <3>3. QED
      BY <3>1, <3>2
  <2>3. CASE j < i
    <3>1. (j + 1) * Step <= i * Step
      BY <2>3, Sizes
    <3>2. (j + 1) * Step = j * Step + Step
      BY Sizes
    <3>3. QED
      BY <3>1, <3>2
  <2>4. QED
    BY <2>1, <2>2, <2>3, Sizes
<1>7. a \in 0 .. Period - 1 /\ b \in 0 .. Period - 1
      /\ (a = x + Half \/ a = x + Half - Period) /\ (b = y + Half \/ b = y + Half - Period)
  BY AfterIs
<1>8. (x = ti \/ x = ti - Period) /\ (y = tj \/ y = tj - Period)
  <2>1. ti \in 0 .. 2 * Period - 1 /\ tj \in 0 .. 2 * Period - 1
    BY <1>4, <1>5, Sizes
  <2>2. QED
    BY <1>1, <1>2, <1>4, <1>5, <2>1, Sizes, ModBelow
<1>9. (k * Step = ej \/ k * Step = ej + Period) /\ (l * Step = ei \/ l * Step = ei + Period)
  BY <1>4, <1>5
<1>10. /\ ei >= a => k * Step <= ei
       /\ ej >= b => l * Step <= ej
       /\ k * Step <= ei + Period /\ l * Step <= ej + Period
  <2>1. /\ i \in 1 .. 2 * Points /\ i + Points \in 1 .. 2 * Points
        /\ j \in 1 .. 2 * Points /\ j + Points \in 1 .. 2 * Points
    BY Sizes
  <2>2. a \in Int /\ b \in Int
    BY <1>7
  <2>3. (i + Points) * Step >= a /\ (j + Points) * Step >= b
    BY <1>4, <1>5, <1>7, Sizes
  <2>4. ei >= a => k * Step <= ei
    BY <1>1, <1>5, <2>1, <2>2, NotLater
  <2>5. ej >= b => l * Step <= ej
    BY <1>2, <1>4, <2>1, <2>2, NotLater
  <2>6. k * Step <= (i + Points) * Step
    BY <1>1, <1>5, <2>1, <2>2, <2>3, NotLater
  <2>7. l * Step <= (j + Points) * Step
    BY <1>2, <1>4, <2>1, <2>2, <2>3, NotLater
  <2>8. QED
    BY <1>4, <1>5, <2>4, <2>5, <2>6, <2>7
<1>11. /\ k * Step >= a /\ l * Step >= b
       /\ ei \in Nat /\ ej \in Nat /\ Step <= ei /\ Step <= ej /\ ei <= Period /\ ej <= Period
       /\ ti \in Nat /\ tj \in Nat /\ ti <= ei /\ tj <= ej /\ ei - Step <= ti /\ ej - Step <= tj
       /\ k * Step \in Nat /\ l * Step \in Nat
  BY <1>3, <1>4, <1>5, Sizes
<1>12. Half \in Nat /\ (2 * Half = Period \/ 2 * Half = Period - 1)
  BY Sizes DEF Half
<1>13. x \in 0 .. Period - 1 /\ y \in 0 .. Period - 1
  BY DEF Phases
<1> DEFINE kk == k * Step
           ll == l * Step
<1> HIDE DEF ei, ej, ti, tj, a, b, kk, ll
<1>14. \E d \in {x - y, y - x} : 2 * d \in Period - 2 * Step - 1 .. Period + 2 * Step + 1
  <2>1. /\ kk \in Nat /\ ll \in Nat /\ kk >= a /\ ll >= b
        /\ (kk = ej \/ kk = ej + Period) /\ (ll = ei \/ ll = ei + Period)
        /\ (ei >= a => kk <= ei) /\ (ej >= b => ll <= ej) /\ kk <= ei + Period /\ ll <= ej + Period
    BY <1>9, <1>10, <1>11 DEF kk, ll
  <2>2. QED
    BY <1>6, <1>7, <1>8, <1>11, <1>12, <1>13, <2>1, Sizes, HalfArithmetic
<1>15. QED
  BY <1>14 DEF HalfApart

\* A shape rises through a level once in a period, and falls through it once.
LEMMA TwoCrossings ==
  ASSUME NEW s \in Signals, NEW t \in Lines,
         NEW x, NEW y, NEW z, InPhase(s, t, x), InPhase(s, t, y), InPhase(s, t, z), x # y
  PROVE  t.slope = "Either" /\ (y # z => x = z)
<1> DEFINE Up(i)   == Sample(s, i - 1) < t.level /\ Sample(s, i) >= t.level
           Down(i) == Sample(s, i - 1) >= t.level /\ Sample(s, i) < t.level
<1>1. t.level \in Levels \cup {Fitted} /\ t.slope \in Slopes
  BY DEF Lines
<1>2. \A i, j \in 1 .. Points : (Up(i) /\ Up(j)) \/ (Down(i) /\ Down(j)) => i = j
  BY <1>1, ShapesAssumption DEF Sample
<1>3. \A i : CrossesIn(s, t, i) => \/ (Up(i) /\ t.slope \in {"Rising", "Either"})
                                  \/ (Down(i) /\ t.slope \in {"Falling", "Either"})
  BY DEF CrossesIn, Between
<1> HIDE DEF Up, Down
<1>4. PICK i \in 1 .. Points : CrossesIn(s, t, i) /\ x = TimeIn(s, t, i) % Period
  BY DEF InPhase
<1>5. PICK j \in 1 .. Points : CrossesIn(s, t, j) /\ y = TimeIn(s, t, j) % Period
  BY DEF InPhase
<1>6. PICK k \in 1 .. Points : CrossesIn(s, t, k) /\ z = TimeIn(s, t, k) % Period
  BY DEF InPhase
<1>7. i # j
  BY <1>4, <1>5
<1>8. t.slope = "Either"
  BY <1>2, <1>3, <1>4, <1>5, <1>7
<1>9. ASSUME y # z PROVE x = z
  <2>1. j # k
    BY <1>5, <1>6, <1>9
  <2>2. i = k
    BY <1>2, <1>3, <1>4, <1>5, <1>6, <1>7, <2>1
  <2>3. QED
    BY <1>4, <1>6, <2>2
<1>10. QED
  BY <1>8, <1>9

-----------------------------------------------------------------------------
\* The trigger, and what a setter has copied of it, are always of the type.

TrigFields == {"trigMode", "slope", "level"}
Copying  == {<<"look", "copy", "apply", "resume">>, <<"clear", "copy", "apply", "resume">>,
             <<"join", "copy", "apply", "resume">>, <<"copy", "apply", "resume">>, <<"copy", "apply">>}
Applying == {<<"apply">>, <<"apply", "resume">>}
Neither(s) == s \notin Copying /\ s \notin Applying

EditInv == /\ trigger \in Trigs
           /\ script \in Copying => edit \in Edits
           /\ script \in Applying /\ edit.of \in TrigFields => edit.copy \in Trigs

\* Which script is which.
LEMMA EditKinds ==
  /\ Copying \cap Applying = {}
  /\ <<"look", "copy", "apply", "resume">> \in Copying /\ <<"clear", "copy", "apply", "resume">> \in Copying
  /\ <<"join", "copy", "apply", "resume">> \in Copying /\ <<"copy", "apply", "resume">> \in Copying
  /\ <<"copy", "apply">> \in Copying
  /\ <<"apply">> \in Applying /\ <<"apply", "resume">> \in Applying
  /\ Neither(<<>>) /\ Neither(<<"run">>) /\ Neither(<<"ask">>) /\ Neither(<<"run", "ask">>)
  /\ Neither(<<"clear">>) /\ Neither(<<"join">>) /\ Neither(<<"resume">>)
  /\ Neither(<<"spawn", "announce">>) /\ Neither(<<"announce">>)
  /\ Neither(<<"spawn", "announce", "ask">>) /\ Neither(<<"announce", "ask">>)
  BY DEF Copying, Applying, Neither

\* The trigger a scope begins with can be asked for.
LEMMA EditInvInit == Init => EditInv
<1> SUFFICES ASSUME Init PROVE EditInv
  OBVIOUS
<1>1. trigger = [mode |-> "Auto", slope |-> "Rising", level |-> Fitted] /\ script = <<>>
  BY DEF Init
<1>2. "Auto" \in TriggerModes /\ "Rising" \in Slopes
  BY ActionsAssumption
<1>3. trigger \in Trigs
  BY <1>1, <1>2 DEF Trigs
<1>4. QED
  BY <1>1, <1>3, EditKinds DEF EditInv, Neither

\* A handler begins with an edit that can be asked for.
LEMMA HandlersKeepEdit == EditInv /\ Handlers => EditInv'
<1> SUFFICES ASSUME EditInv, Handlers PROVE EditInv'
  OBVIOUS
<1>1. UNCHANGED trigger
  BY DEF Handlers, Run, Stop, Single, ToggleRunStop, Verb, ForceTrigger, Autoset, AutosetDone, Set,
         settingVars
<1>2. CASE \E e \in Edits : Set(e)
  <2>1. edit' \in Edits /\ script' \in Copying
    BY <1>2, EditKinds DEF Set, Handler
  <2>2. QED
    BY <1>1, <2>1, EditKinds DEF EditInv
<1>3. CASE Run \/ Stop \/ Single \/ ToggleRunStop \/ ForceTrigger \/ Autoset \/ AutosetDone
  <2>1. Neither(script')
    <3>1. CASE Run \/ Stop \/ Single \/ ToggleRunStop
      BY <3>1, EditKinds DEF Run, Stop, Single, ToggleRunStop, Verb, Handler, SingleSteps
    <3>2. CASE ForceTrigger \/ Autoset \/ AutosetDone
      BY <3>2, EditKinds DEF ForceTrigger, Autoset, AutosetDone, mainVars
    <3>3. QED
      BY <1>3, <3>1, <3>2
  <2>2. QED
    BY <1>1, <2>1 DEF EditInv, Neither
<1>4. QED
  BY <1>2, <1>3 DEF Handlers

\* The copy with its field edited is a trigger again.
LEMMA EditedIsTrigger ==
  ASSUME trigger \in Trigs, edit \in Edits, edit.of \in TrigFields
  PROVE  Edited \in Trigs
<1>1. \/ edit.of = "trigMode" /\ edit.to \in TriggerModes
      \/ edit.of = "slope" /\ edit.to \in Slopes
      \/ edit.of = "level" /\ edit.to \in Levels
  BY DEF Edits, TrigFields
<1>2. CASE edit.of = "trigMode" /\ edit.to \in TriggerModes
  BY <1>2 DEF Edited, Trigs
<1>3. CASE edit.of = "slope" /\ edit.to \in Slopes
  BY <1>3 DEF Edited, Trigs
<1>4. CASE edit.of = "level" /\ edit.to \in Levels
  BY <1>4 DEF Edited, Trigs
<1>5. QED
  BY <1>1, <1>2, <1>3, <1>4

\* A copy of the trigger that is edited is a trigger that can be asked for.
LEMMA StepsKeepEdit == script \in Scripts /\ EditInv /\ Steps => EditInv'
<1> SUFFICES ASSUME script \in Scripts, EditInv, Steps PROVE EditInv'
  OBVIOUS
<1> DEFINE Same == UNCHANGED <<trigger, edit>>
           Goes == Neither(script') \/ (script \in Copying /\ script' \in Copying)
<1>1. Same /\ Goes => EditInv'
  BY EditKinds DEF EditInv, Neither
<1>2. CASE Look
  <2>1. Same
    BY <1>2 DEF Look, settingVars
  <2>2. script = <<"look", "copy", "apply", "resume">> /\ Tail(script) = <<"copy", "apply", "resume">>
    BY <1>2, DoingIs DEF Look, Leaves
  <2>3. script \in Copying /\ Tail(script) \in Copying /\ <<"clear">> \o Tail(script) \in Copying
    BY <2>2, EditKinds, Joined
  <2>4. script' \in Copying
    BY <1>2, <2>3 DEF Look
  <2>5. QED
    BY <1>1, <2>1, <2>3, <2>4
<1>3. CASE Resume
  <2>1. Same /\ Neither(script')
    BY <1>3, EditKinds DEF Resume, settingVars
  <2>2. QED
    BY <1>1, <2>1
<1>4. CASE Copy
  <2>1. UNCHANGED trigger /\ edit' = [of |-> edit.of, copy |-> Edited]
    BY <1>4 DEF Copy, settingVars
  <2>2. script \in Copying /\ script' \in Applying
    BY <1>4, DoingIs, EditKinds DEF Copy, Leaves
  <2>3. edit'.of = edit.of /\ edit'.copy = Edited
    BY <2>1
  <2>4. edit'.of \in TrigFields => edit'.copy \in Trigs
    BY <2>2, <2>3, EditedIsTrigger DEF EditInv
  <2>5. QED
    BY <2>1, <2>2, <2>4, EditKinds DEF EditInv
<1>5. CASE Apply
  <2>1. script \in Applying /\ Neither(script')
    BY <1>5, DoingIs, EditKinds DEF Apply, Leaves
  <2>2. trigger' \in Trigs
    BY <1>5, <2>1 DEF Apply, EditInv, TrigFields
  <2>3. QED
    BY <2>1, <2>2 DEF EditInv, Neither
<1>6. CASE Begin
  <2>1. Same
    BY <1>6 DEF Begin, OnlyScript, settingVars
  <2>2. Tail(script) \in {<<>>, <<"ask">>}
    BY <1>6, DoingIs DEF Begin, Leaves
  <2>3. Neither(Tail(script)) /\ Neither(<<"spawn", "announce">> \o Tail(script))
    BY <2>2, EditKinds, Joined
  <2>4. Neither(script')
    BY <1>6, <2>3 DEF Begin
  <2>5. QED
    BY <1>1, <2>1, <2>4
<1>7. CASE Spawn
  <2>1. Same
    BY <1>7 DEF Spawn, settingVars
  <2>2. Neither(script')
    BY <1>7, DoingIs, EditKinds DEF Spawn, Leaves
  <2>3. QED
    BY <1>1, <2>1, <2>2
<1>8. CASE Announce
  <2>1. Same
    BY <1>8 DEF Announce, settingVars
  <2>2. Neither(script')
    BY <1>8, DoingIs, EditKinds DEF Announce, Leaves
  <2>3. QED
    BY <1>1, <2>1, <2>2
<1>9. CASE Ask
  <2>1. Same
    BY <1>9 DEF Ask, settingVars
  <2>2. Neither(script')
    BY <1>9, DoingIs, EditKinds DEF Ask, Leaves
  <2>3. QED
    BY <1>1, <2>1, <2>2
<1>10. CASE Clear
  <2>1. Same
    BY <1>10 DEF Clear, settingVars
  <2>2. \/ Neither(Tail(script)) /\ Neither(<<"join">> \o Tail(script))
        \/ script \in Copying /\ Tail(script) \in Copying /\ <<"join">> \o Tail(script) \in Copying
    <3>1. \/ Tail(script) = <<>>
          \/ script \in Copying /\ Tail(script) = <<"copy", "apply", "resume">>
      BY <1>10, DoingIs, EditKinds DEF Clear, Leaves
    <3>2. QED
      BY <3>1, EditKinds, Joined
  <2>3. script' \in {Tail(script), <<"join">> \o Tail(script)}
    BY <1>10 DEF Clear
  <2>4. Goes
    BY <2>2, <2>3
  <2>5. QED
    BY <1>1, <2>1, <2>4
<1>11. CASE Join
  <2>1. Same
    BY <1>11 DEF Join, settingVars
  <2>2. Goes
    BY <1>11, DoingIs, EditKinds DEF Join, Leaves
  <2>3. QED
    BY <1>1, <2>1, <2>2
<1>12. QED
  BY <1>2, <1>3, <1>4, <1>5, <1>6, <1>7, <1>8, <1>9, <1>10, <1>11 DEF Steps

\* Every step leaves a trigger that can be asked for.
LEMMA EditInvNext == ModeInv /\ EditInv /\ [Next]_vars => EditInv'
<1> SUFFICES ASSUME ModeInv, EditInv, [Next]_vars PROVE EditInv'
  OBVIOUS
<1>1. CASE Loop
  <2>1. UNCHANGED <<trigger, script, edit>>
    BY <1>1 DEF Loop, LoopTop, LoopBreaks, LoopTrigger, LoopPublish, LoopAdvance, LoopCheck, LoopRetire,
           settingVars, mainVars
  <2>2. QED
    BY <2>1 DEF EditInv
<1>2. CASE Worker
  <2>1. trigger' = [trigger EXCEPT !.level = Fitted] /\ UNCHANGED <<script, edit>>
    BY <1>2 DEF Worker, mainVars
  <2>2. trigger' \in Trigs
    BY <2>1 DEF EditInv, Trigs
  <2>3. QED
    BY <2>1, <2>2 DEF EditInv
<1>3. CASE UNCHANGED vars
  BY <1>3 DEF EditInv, vars, settingVars, mainVars
<1>4. QED
  BY <1>1, <1>2, <1>3, HandlersKeepEdit, StepsKeepEdit DEF Next, ModeInv

-----------------------------------------------------------------------------
\* Where the sweeps start.

\* Is a sweep made that is not yet published?
Drawn == loop = "publish" /\ mode # "Streaming"

SweepInv ==
  Drawn =>
    /\ sweep.by \in Lines
    /\ sweep.triggered => /\ InPhase(signal, sweep.by, sweep.at)
                          /\ sweep.at \in Phases /\ after = After(sweep.at)
                          /\ lock.length > 0 => Finds(signal, sweep.by, After(lock.at), sweep.at)
    /\ ~sweep.forced /\ (\E i \in 1 .. Points : CrossesIn(signal, sweep.by, i)) => sweep.triggered

\* The triggered sweep published last, and the one before it.
LockInv ==
  /\ lock.length \in 0 .. 2
  /\ lock.length > 0 => lock.triggered
  /\ lock.triggered => /\ lock.by \in Lines /\ lock.at \in Phases
                       /\ InPhase(signal, lock.by, lock.at)
  /\ lock.length = 2 => \E at \in Phases : /\ InPhase(signal, lock.by, at)
                                           /\ Finds(signal, lock.by, After(at), lock.at)

\* Between two sweeps the search is to resume where the last one left it.
ResumeInv == ~Drawn /\ lock.length > 0 => after = After(lock.at)

PhaseInv == /\ signal \in Signals /\ free \in Phases /\ after \in Phases
            /\ loop = "trigger" => mode # "Streaming"
            /\ LockInv /\ SweepInv /\ ResumeInv

\* At first no sweep was drawn.
LEMMA PhaseInvInit == Init => PhaseInv
<1> SUFFICES ASSUME Init PROVE PhaseInv
  OBVIOUS
<1>1. signal \in Signals /\ free = 0 /\ after = 0 /\ loop = "none" /\ 0 \in Phases
  BY Sizes DEF Init, Phases
<1>2. lock.triggered = FALSE /\ lock.length = 0
  BY DEF Init, NoLock
<1>3. QED
  BY <1>1, <1>2 DEF PhaseInv, LockInv, SweepInv, ResumeInv, Drawn

\* A sweep is placed at a crossing of its trigger whenever the signal has one,
\* unless it is forced; and at the first from where the search was left.
LEMMA LoopTriggerKeepsPhase ==
  ASSUME EditInv, PhaseInv, LoopTrigger
  PROVE  after' \in Phases /\ SweepInv' /\ ResumeInv'
<1>1. UNCHANGED <<signal, mode, lock>> /\ loop = "trigger" /\ mode # "Streaming"
  BY DEF LoopTrigger, pastVars, PhaseInv
<1>2. /\ signal \in Signals /\ trigger \in Trigs /\ free \in Phases /\ after \in Phases
      /\ Line \in Lines /\ (lock.length > 0 => after = After(lock.at))
  BY <1>1, SearchIs DEF EditInv, PhaseInv, ResumeInv, Drawn
<1>3. CASE forced
  <2>1. /\ after' = free /\ loop' = "publish"
        /\ sweep' = [at |-> free, triggered |-> FALSE, forced |-> TRUE, by |-> Line]
    BY <1>3 DEF LoopTrigger
  <2>2. sweep'.by = Line /\ ~sweep'.triggered /\ sweep'.forced
    BY <2>1
  <2>3. QED
    BY <1>1, <1>2, <2>1, <2>2 DEF SweepInv, ResumeInv, Drawn
<1>4. CASE ~forced /\ Crossings # {}
  <2>1. /\ after' = (TriggerTime + Half) % Period /\ loop' = "publish"
        /\ sweep' = [at |-> TriggerTime % Period, triggered |-> TRUE, forced |-> FALSE, by |-> Line]
    BY <1>4 DEF LoopTrigger, ResumeAt, Half
  <2>2. /\ TriggerTime \in Int /\ InPhase(signal, Line, TriggerTime % Period)
        /\ Finds(signal, Line, after, TriggerTime % Period)
    BY <1>2, <1>4, SearchResult
  <2>3. sweep'.by = Line /\ sweep'.triggered /\ sweep'.at = TriggerTime % Period
    BY <2>1
  <2>4. Half \in Int
    BY Sizes DEF Half
  <2>5. sweep'.at \in Phases /\ after' = After(sweep'.at)
    BY <2>1, <2>2, <2>3, <2>4, Sizes, DivMod, ModAdd DEF Phases, After
  <2>6. after' \in Phases
    BY <2>5, AfterIs DEF Phases
  <2>7. lock'.length > 0 => Finds(signal', sweep'.by, After(lock'.at), sweep'.at)
    BY <1>1, <1>2, <2>2, <2>3
  <2>8. SweepInv'
    BY <1>1, <1>2, <2>2, <2>3, <2>5, <2>7 DEF SweepInv
  <2>9. QED
    BY <1>1, <2>1, <2>6, <2>8 DEF ResumeInv, Drawn
<1>5. CASE ~forced /\ Crossings = {} /\ held.trigMode = "Auto"
  <2>1. /\ after' = free /\ loop' = "publish"
        /\ sweep' = [at |-> free, triggered |-> FALSE, forced |-> FALSE, by |-> Line]
    BY <1>5 DEF LoopTrigger
  <2>2. sweep'.by = Line /\ ~sweep'.triggered
    BY <2>1
  <2>3. ~ \E i \in 1 .. Points : CrossesIn(signal', sweep'.by, i)
    BY <1>1, <1>2, <1>5, <2>2, SearchFinds
  <2>4. QED
    BY <1>1, <1>2, <2>1, <2>2, <2>3 DEF SweepInv, ResumeInv, Drawn
<1>6. CASE ~forced /\ Crossings = {} /\ held.trigMode # "Auto"
  <2>1. after' = after /\ loop' = "check"
    BY <1>6 DEF LoopTrigger
  <2>2. QED
    BY <1>1, <1>2, <2>1 DEF SweepInv, ResumeInv, Drawn
<1>7. QED
  BY <1>3, <1>4, <1>5, <1>6

\* A sweep that is published takes its place in the history.
LEMMA LoopPublishKeepsPhase ==
  ASSUME PhaseInv, LoopPublish
  PROVE  LockInv' /\ SweepInv' /\ ResumeInv'
<1>1. /\ UNCHANGED <<signal, mode, after, sweep>> /\ loop = "publish" /\ loop' = "published"
      /\ lock' = IF mode = "Streaming" THEN lock
                 ELSE IF ~sweep.triggered THEN [lock EXCEPT !.length = 0]
                 ELSE [triggered |-> TRUE, at |-> sweep.at, by |-> sweep.by,
                       length |-> IF lock.length > 0 /\ lock.by = sweep.by THEN 2 ELSE 1]
  BY DEF LoopPublish, timeVars, sweepVars
<1>2. SweepInv'
  BY <1>1 DEF SweepInv, Drawn
<1>3. CASE mode = "Streaming"
  BY <1>1, <1>2, <1>3 DEF PhaseInv, LockInv, ResumeInv, Drawn
<1>4. CASE mode # "Streaming" /\ ~sweep.triggered
  <2>1. lock' = [lock EXCEPT !.length = 0]
    BY <1>1, <1>4
  <2>2. lock'.triggered = lock.triggered /\ lock'.by = lock.by /\ lock'.at = lock.at
    BY <2>1
  <2>3. lock'.length = 0 \/ lock'.length = lock.length
    BY <2>1
  <2>4. QED
    BY <1>1, <1>2, <1>4, <2>2, <2>3 DEF PhaseInv, LockInv, ResumeInv, Drawn
<1>5. CASE mode # "Streaming" /\ sweep.triggered
  <2>1. /\ lock'.triggered = TRUE /\ lock'.at = sweep.at /\ lock'.by = sweep.by
        /\ lock'.length = IF lock.length > 0 /\ lock.by = sweep.by THEN 2 ELSE 1
    BY <1>1, <1>5
  <2>2. /\ sweep.by \in Lines /\ InPhase(signal, sweep.by, sweep.at)
        /\ sweep.at \in Phases /\ after = After(sweep.at)
        /\ lock.length > 0 => Finds(signal, sweep.by, After(lock.at), sweep.at)
    BY <1>1, <1>5 DEF PhaseInv, SweepInv, Drawn
  <2>3. ResumeInv'
    BY <1>1, <2>1, <2>2 DEF ResumeInv
  <2>4. lock'.length = 2 => \E at \in Phases : /\ InPhase(signal', lock'.by, at)
                                               /\ Finds(signal', lock'.by, After(at), lock'.at)
    <3> SUFFICES ASSUME lock'.length = 2
                 PROVE  \E at \in Phases : /\ InPhase(signal', lock'.by, at)
                                           /\ Finds(signal', lock'.by, After(at), lock'.at)
      OBVIOUS
    <3>1. lock.length > 0 /\ lock.by = sweep.by
      BY <2>1
    <3>2. lock.at \in Phases /\ InPhase(signal, lock.by, lock.at)
      BY <3>1 DEF PhaseInv, LockInv
    <3>3. QED
      BY <1>1, <2>1, <2>2, <3>1, <3>2
  <2>5. LockInv'
    BY <1>1, <2>1, <2>2, <2>4 DEF LockInv
  <2>6. QED
    BY <1>2, <2>3, <2>5
<1>6. QED
  BY <1>3, <1>4, <1>5

\* Every iteration leaves a sweep that begins where the trigger it was drawn
\* with crosses, or a free one.
LEMMA LoopKeepsPhase == EditInv /\ PhaseInv /\ Loop => PhaseInv'
<1> SUFFICES ASSUME EditInv, PhaseInv, Loop PROVE PhaseInv'
  OBVIOUS
<1>1. UNCHANGED <<signal, mode>>
  BY DEF Loop, LoopTop, LoopBreaks, LoopTrigger, LoopPublish, LoopAdvance, LoopCheck, LoopRetire, shotVars
<1>2. free' \in Phases
  <2>1. CASE LoopAdvance
    <3>1. free + Window \in Int
      BY ActionsAssumption, Sizes DEF PhaseInv, Phases
    <3>2. QED
      BY <2>1, <3>1, Sizes, DivMod DEF LoopAdvance, Phases
  <2>2. CASE ~LoopAdvance
    BY <2>2 DEF PhaseInv, Loop, LoopTop, LoopBreaks, LoopTrigger, LoopPublish, LoopCheck, LoopRetire, timeVars
  <2>3. QED
    BY <2>1, <2>2
<1>3. (loop = "trigger" => mode # "Streaming")'
  BY <1>1 DEF PhaseInv, Loop, LoopTop, LoopBreaks, LoopTrigger, LoopPublish, LoopAdvance, LoopCheck, LoopRetire
<1>4. CASE LoopTrigger
  <2>1. UNCHANGED lock
    BY <1>4 DEF LoopTrigger, pastVars
  <2>2. LockInv'
    BY <1>1, <2>1 DEF PhaseInv, LockInv
  <2>3. QED
    BY <1>1, <1>2, <1>3, <1>4, <2>2, LoopTriggerKeepsPhase DEF PhaseInv
<1>5. CASE LoopPublish
  <2>1. UNCHANGED after
    BY <1>5 DEF LoopPublish, timeVars
  <2>2. QED
    BY <1>1, <1>2, <1>3, <1>5, <2>1, LoopPublishKeepsPhase DEF PhaseInv
<1>6. CASE LoopTop \/ LoopBreaks \/ LoopAdvance \/ LoopCheck \/ LoopRetire
  <2>1. UNCHANGED <<lock, after>> /\ ~Drawn /\ ~Drawn'
    BY <1>1, <1>6 DEF LoopTop, LoopBreaks, LoopAdvance, LoopCheck, LoopRetire, timeVars, pastVars, Drawn
  <2>2. QED
    BY <1>1, <1>2, <1>3, <2>1 DEF PhaseInv, LockInv, SweepInv, ResumeInv
<1>7. QED
  BY <1>4, <1>5, <1>6 DEF Loop

\* Nothing but the loop draws a sweep, and the loop's mode is changed only before it
\* starts.
LEMMA OthersKeepPhase ==
  ModeInv /\ PhaseInv /\ (Handlers \/ Steps \/ Worker \/ UNCHANGED vars) => PhaseInv'
<1> SUFFICES ASSUME ModeInv, PhaseInv, Handlers \/ Steps \/ Worker \/ UNCHANGED vars PROVE PhaseInv'
  OBVIOUS
<1> DEFINE G == /\ UNCHANGED <<signal, after, sweep, lock>> /\ free' \in {free, 0}
                /\ \/ UNCHANGED <<loop, mode>>
                   \/ /\ loop \notin {"publish", "trigger"}
                      /\ loop' \notin {"publish", "trigger"}
<1>1. G
  <2>1. CASE Handlers
    BY <2>1 DEF Handlers, Run, Stop, Single, ToggleRunStop, Verb, ForceTrigger, Autoset, AutosetDone, Set,
           threadVars, shotVars, timeVars, sweepVars, pastVars
  <2>2. CASE Look \/ Resume \/ Copy \/ Apply \/ Begin
    BY <2>2 DEF Look, Resume, Copy, Apply, Begin, OnlyScript, threadVars, shotVars, timeVars, sweepVars, pastVars
  <2>3. CASE Spawn
    BY <2>3 DEF Spawn, ModeInv, timeVars, sweepVars, pastVars
  <2>4. CASE Announce \/ Ask \/ Clear \/ Join
    BY <2>4 DEF Announce, Ask, Clear, Join, threadVars, shotVars, timeVars, sweepVars, pastVars
  <2>5. CASE Worker \/ UNCHANGED vars
    BY <2>5 DEF Worker, vars, threadVars, shotVars, timeVars, sweepVars, pastVars
  <2>6. QED
    BY <2>1, <2>2, <2>3, <2>4, <2>5 DEF Steps
<1> HIDE DEF G
<1>2. free' \in Phases
  BY <1>1, Sizes DEF G, PhaseInv, Phases
<1>3. (Drawn' <=> Drawn) /\ (loop' = "trigger" => mode' # "Streaming")
  BY <1>1 DEF G, Drawn, PhaseInv
<1>4. QED
  BY <1>1, <1>2, <1>3 DEF G, PhaseInv, LockInv, SweepInv, ResumeInv

StillInv == ModeInv /\ EditInv /\ PhaseInv

\* The three invariants hold at first.
LEMMA StillInvInit == Init => StillInv
  BY ModeInvInit, EditInvInit, PhaseInvInit DEF StillInv

\* Every step keeps the three invariants together.
LEMMA StillInvNext == StillInv /\ [Next]_vars => StillInv'
  BY ModeInvNext, EditInvNext, LoopKeepsPhase, OthersKeepPhase DEF StillInv, Next

\* A sweep that is published is triggered at a crossing of its trigger if there is one.
LEMMA DrawnTriggers == StillInv /\ Drawn => SweepsTrigger
<1> SUFFICES ASSUME StillInv, Drawn, ~sweep.forced, sweep.by = Line, \E i \in 1 .. Points : Crosses(i)
             PROVE  sweep.triggered /\ \E i \in 1 .. Points : Crosses(i) /\ sweep.at = TimeOf(i) % Period
  BY DEF SweepsTrigger
<1>1. sweep.triggered
  BY SearchIs DEF StillInv, PhaseInv, SweepInv
<1>2. InPhase(signal, Line, sweep.at)
  BY <1>1 DEF StillInv, PhaseInv, SweepInv
<1>3. QED
  BY <1>1, <1>2, SearchIs DEF InPhase

\* It is in phase with the one before, or with the one before that.
LEMMA DrawnSettles == StillInv /\ Drawn => TraceSettles
<1> SUFFICES ASSUME StillInv, Drawn, sweep.triggered, lock.triggered, lock.by = sweep.by, sweep.at # lock.at
             PROVE  sweep.by.slope = "Either" /\ (lock.length < 2 \/ HalfApart(sweep.at, lock.at))
  BY DEF TraceSettles
<1>1. /\ signal \in Signals /\ sweep.by \in Lines /\ lock.length \in 0 .. 2
      /\ sweep.at \in Phases /\ InPhase(signal, sweep.by, sweep.at)
      /\ lock.at \in Phases /\ InPhase(signal, sweep.by, lock.at)
  BY DEF StillInv, PhaseInv, SweepInv, LockInv
<1>2. sweep.by.slope = "Either"
  BY <1>1, TwoCrossings
<1>3. ASSUME lock.length = 2 PROVE HalfApart(sweep.at, lock.at)
  <2>1. PICK at \in Phases : InPhase(signal, sweep.by, at) /\ Finds(signal, sweep.by, After(at), lock.at)
    BY <1>3 DEF StillInv, PhaseInv, LockInv
  <2>2. Finds(signal, sweep.by, After(lock.at), sweep.at)
    BY <1>3 DEF StillInv, PhaseInv, SweepInv
  <2>3. at # lock.at
    BY <2>1, <2>2, OneFind
  <2>4. at = sweep.at
    BY <1>1, <2>1, <2>3, TwoCrossings
  <2>5. QED
    BY <1>1, <2>1, <2>2, <2>4, BackAndForth
<1>4. QED
  BY <1>1, <1>2, <1>3

\* _produceWindowed(), _findTriggerTime(): the sweeps of one trigger stand still, or with
\* "either slope" settle after one jump unless the crossings are half a period apart, for
\* any number of settings changed, sweeps forced and acquisitions started and stopped.
THEOREM ActionsSweepsSettle == Spec => SweepsSettle
<1>1. StillInv /\ [Next]_vars => [LoopPublish /\ mode # "Streaming" => SweepsTrigger /\ TraceSettles]_vars
  <2>1. LoopPublish /\ mode # "Streaming" => Drawn
    BY DEF LoopPublish, Drawn
  <2>2. QED
    BY <2>1, DrawnTriggers, DrawnSettles
<1>2. QED
  BY <1>1, StillInvInit, StillInvNext, PTL DEF Spec, SweepsSettle
==============================================================================
