------------------------------ MODULE PanelProofs ------------------------------
(***************************************************************************)
(* Proofs about what the panels and the screen say: the crossings of a     *)
(* record (src/src/measure/JEdgeDetector.cpp), the trace that is drawn of  *)
(* it (src/src/measure/JTraceDecimator.cpp) and the generator's panel      *)
(* (src/src/ui/JGeneratorPanel.cpp), for every value of the constants.     *)
(*                                                                         *)
(* Crossings.  The detector remembers one Boolean.  That its edges         *)
(* alternate follows from the last of them having led to the side it       *)
(* remembers; that they are the excursions of the record needs that the    *)
(* Boolean is the side of the last sample outside the band (SideIsTrue),   *)
(* which is the detector's whole idea and is said of a state, not of the   *)
(* code that got it there.                                                 *)
(*                                                                         *)
(* Trace.  Two facts carry DrawnIsSampled.  With more samples than pixels  *)
(* the spans of the columns are not empty and inside the viewport, and the *)
(* pixel of a sample is the column whose span holds it: properties of the  *)
(* quotients the code computes them with.  And a column is drawn between   *)
(* the extremes of its span, in one of the two orders: which order depends *)
(* on all the columns before it, so the function that says so is defined   *)
(* by recursion, and that there is one is shown by induction on a set of   *)
(* numbers (AllNaturals).  NoBacktracking needs the order itself: the next *)
(* column of a signal that only rises begins where the last one ended.     *)
(*                                                                         *)
(* Levels.  A dropout is one sample, so every bin of the histogram but     *)
(* those of the two levels holds at most one, and whichever of the two is  *)
(* the fuller, the other is the fullest of those far enough away.          *)
(*                                                                         *)
(* Timing.  Crossings follow each other, each with its two samples on      *)
(* either side of the middle of the band, so a crossing is timed before    *)
(* the sample that completes it (CrossedBefore) and samples that repeat    *)
(* repeat its time (CrossedAgain): the gaps of one direction are all the   *)
(* period, and their median is it without a sort (MedianOfEquals).  The    *)
(* high times are one value only if a rise is not timed before the fall    *)
(* that it follows: that is what Bracketed is for.                         *)
(*                                                                         *)
(* Generator.  The invariant is what the code keeps in three places: the   *)
(* record of the generator, the panel that shows it, and the device that   *)
(* is told of it later, with `owed` for what it has not been told yet.     *)
(***************************************************************************)
EXTENDS Measurement, Generator, SequenceTheorems, FiniteSetTheorems, WellFoundedInduction, TLAPS

-----------------------------------------------------------------------------
\* The last edge led to the side the detector remembers.
LastLedHere ==
  crossings # <<>> => crossings[Len(crossings)].rising = above

\* The side remembered is that of the last sample outside the band, or the one
\* the record began on.
SideIsTrue ==
  \/ \E k \in DOMAIN samples :
       /\ Outside(k) /\ \A m \in k + 1 .. Len(samples) : ~Outside(m)
       /\ (above <=> samples[k] >= High)
  \/ /\ \A k \in DOMAIN samples : ~Outside(k)
     /\ (above <=> samples[1] > threshold.level)

\* A crossing is completed by a sample that has been read.
CrossingsWereRead == \A k \in DOMAIN crossings : crossings[k].at < Len(samples)

DetectorInv == /\ TypeOK /\ LastLedHere /\ EdgesAlternate
               /\ SideIsTrue /\ CrossingsWereRead /\ CrossingsAreExcursions

-----------------------------------------------------------------------------
\* The band has an upper and a lower edge, and they are apart.
LEMMA BandIsOpen ==
  ASSUME threshold \in Thresholds
  PROVE  /\ High \in Int /\ Low \in Int /\ threshold.level \in Int
         /\ Low < threshold.level /\ threshold.level < High
BY DetectorAssumption DEF High, Low

\* The initial state satisfies the invariant: the first sample is no crossing.
LEMMA InitDetector == Init => DetectorInv
<1> SUFFICES ASSUME Init PROVE DetectorInv
  OBVIOUS
<1>1. PICK v \in Volts : samples = <<v>> /\ above = (v > threshold.level)
  BY DEF Init
<1>2. /\ threshold \in Thresholds /\ crossings = <<>>
      /\ Len(samples) = 1 /\ DOMAIN samples = {1} /\ samples[1] = v /\ v \in Int
  BY <1>1, DetectorAssumption DEF Init
<1>3. TypeOK /\ LastLedHere /\ EdgesAlternate /\ CrossingsWereRead
  BY <1>1, <1>2 DEF TypeOK, LastLedHere, EdgesAlternate, CrossingsWereRead
<1>4. SideIsTrue
  <2>1. CASE Outside(1)
    <3>1. /\ v >= High \/ v <= Low
          /\ High \in Int /\ Low \in Int /\ threshold.level \in Int
          /\ Low < threshold.level /\ threshold.level < High
      BY <1>2, <2>1, BandIsOpen DEF Outside
    <3>2. v > threshold.level <=> v >= High
      BY <1>2, <3>1
    <3>3. above <=> samples[1] >= High
      BY <1>1, <1>2, <3>2
    <3> QED
      BY <1>2, <2>1, <3>3 DEF SideIsTrue
  <2>2. CASE ~Outside(1)
    BY <1>1, <1>2, <2>2 DEF SideIsTrue
  <2> QED
    BY <2>1, <2>2
<1>5. CrossingsAreExcursions
  BY <1>1, <1>2, BandIsOpen DEF CrossingsAreExcursions, Excursion, Outside
<1> QED
  BY <1>3, <1>4, <1>5 DEF DetectorInv

\* What a step reads and finds.
LEMMA ReadSample ==
  ASSUME TypeOK, NEW v \in Volts, Read(v)
  PROVE  /\ v \in Int /\ Len(samples) \in Nat \ {0}
         /\ samples' \in Seq(Volts) /\ Len(samples') = Len(samples) + 1
         /\ DOMAIN samples = 1 .. Len(samples) /\ DOMAIN samples' = 1 .. Len(samples) + 1
         /\ samples'[Len(samples) + 1] = v
         /\ \A i \in 1 .. Len(samples) : samples'[i] = samples[i] /\ samples[i] \in Int
         /\ threshold' = threshold /\ threshold \in Thresholds
         /\ High' = High /\ Low' = Low
<1>1. /\ samples' = Append(samples, v) /\ samples \in Seq(Volts) /\ samples # <<>>
      /\ threshold' = threshold /\ threshold \in Thresholds
  BY DEF TypeOK, Read
<1>2. v \in Int /\ \A i \in 1 .. Len(samples) : samples[i] \in Int
  <2>1. \A i \in 1 .. Len(samples) : samples[i] \in Volts
    BY <1>1
  <2> QED
    BY <2>1, DetectorAssumption
<1>3. /\ Len(samples) \in Nat \ {0} /\ samples' \in Seq(Volts) /\ Len(samples') = Len(samples) + 1
      /\ DOMAIN samples = 1 .. Len(samples) /\ DOMAIN samples' = 1 .. Len(samples')
  BY <1>1
<1>4. /\ samples'[Len(samples) + 1] = v
      /\ \A i \in 1 .. Len(samples) : samples'[i] = samples[i]
  BY <1>1, <1>3
<1>5. High' = High /\ Low' = Low
  BY <1>1 DEF High, Low
<1> QED
  BY <1>1, <1>2, <1>3, <1>4, <1>5

\* A sample inside the record is an excursion or not whatever is read after it.
LEMMA PastIsSettled ==
  ASSUME TypeOK, NEW v \in Volts, Read(v), NEW i \in 1 .. Len(samples)
  PROVE  (Excursion(i))' <=> Excursion(i)
<1>1. /\ Len(samples) \in Nat /\ High' = High /\ threshold' = threshold
      /\ \A k \in 1 .. Len(samples) : samples'[k] = samples[k]
  BY ReadSample
<1>2. \A k \in 1 .. Len(samples) : (Outside(k))' <=> Outside(k)
  BY ReadSample DEF Outside
<1>3. i \in 1 .. Len(samples) /\ 1 .. i - 1 \subseteq 1 .. Len(samples)
      /\ \A k \in 1 .. i - 1 : k + 1 .. i - 1 \subseteq 1 .. i - 1
  BY <1>1
<1>4. (\A k \in 1 .. i - 1 : ~Outside(k))' <=> \A k \in 1 .. i - 1 : ~Outside(k)
  BY <1>2, <1>3
<1>5. ASSUME NEW k \in 1 .. i - 1
      PROVE  (\A m \in k + 1 .. i - 1 : ~Outside(m))' <=> \A m \in k + 1 .. i - 1 : ~Outside(m)
  BY <1>2, <1>3
<1>6. samples'[1] = samples[1] /\ samples'[i] = samples[i]
  BY <1>1
<1> QED
  BY <1>1, <1>2, <1>3, <1>4, <1>5, <1>6 DEF Excursion

\* The sample read is an excursion just when it clears the band.
LEMMA ExcursionClears ==
  ASSUME TypeOK, SideIsTrue, NEW v \in Volts, Read(v), NEW n \in Nat, n = Len(samples)
  PROVE  /\ (Excursion(n + 1))' <=> Clears(v)
         /\ Clears(v) => (v >= High <=> ~above)
<1>1. above \in BOOLEAN /\ threshold \in Thresholds
  BY DEF TypeOK
<1>2. \A k \in 1 .. n : (Outside(k))' <=> Outside(k)
  BY ReadSample DEF Outside
<1>3. (Outside(n + 1))' <=> v >= High \/ v <= Low
  BY ReadSample DEF Outside
<1>4. Clears(v) => /\ (v >= High <=> ~above)
                   /\ v >= High \/ v <= Low
  BY <1>1, BandIsOpen, ReadSample DEF Clears
<1>5. (v >= High \/ v <= Low) /\ ~Clears(v) => (v >= High <=> above)
  BY <1>1, BandIsOpen, ReadSample DEF Clears
<1>6. CASE \A k \in 1 .. n : ~Outside(k)
  <2>1. above <=> samples[1] > threshold.level
    BY <1>1, <1>6, ReadSample DEF SideIsTrue
  <2>2. (Excursion(n + 1))' <=> /\ v >= High \/ v <= Low
                                /\ ~(samples[1] > threshold.level <=> v >= High)
    BY <1>2, <1>3, <1>6, ReadSample DEF Excursion
  <2> QED
    BY <2>1, <2>2, <1>4, <1>5, Zenon
<1>7. CASE \E k \in 1 .. n : Outside(k)
  <2>1. PICK k \in 1 .. n : /\ Outside(k) /\ \A m \in k + 1 .. n : ~Outside(m)
                            /\ (above <=> samples[k] >= High)
    BY <1>1, <1>7, ReadSample DEF SideIsTrue
  <2>2. \A j \in 1 .. n : Outside(j) /\ (\A m \in j + 1 .. n : ~Outside(m)) => j = k
    BY <2>1, ReadSample
  <2>3. /\ samples'[n + 1] = v /\ samples'[k] = samples[k] /\ High' = High
        /\ (n + 1) - 1 = n /\ k \in 1 .. n
    BY ReadSample
  <2>4. (Outside(k))' /\ \A m \in k + 1 .. n : ~(Outside(m))'
    BY <1>2, <2>1
  <2>5. \A j \in 1 .. n : (Outside(j))' /\ (\A m \in j + 1 .. n : ~(Outside(m))') => j = k
    BY <1>2, <2>2
  <2>6. (Excursion(n + 1))' => /\ v >= High \/ v <= Low
                               /\ ~(samples[k] >= High <=> v >= High)
    <3> SUFFICES ASSUME (Excursion(n + 1))'
                 PROVE  /\ v >= High \/ v <= Low
                        /\ ~(samples[k] >= High <=> v >= High)
      OBVIOUS
    <3>1. v >= High \/ v <= Low
      BY <1>3 DEF Excursion
    <3>2. PICK j \in 1 .. n : /\ (Outside(j))' /\ \A m \in j + 1 .. n : ~(Outside(m))'
                              /\ ~(samples'[j] >= High' <=> samples'[n + 1] >= High')
      BY <2>3, <2>4 DEF Excursion
    <3>3. j = k
      BY <2>5, <3>2
    <3> QED
      BY <2>3, <3>1, <3>2, <3>3
  <2>7. (v >= High \/ v <= Low) /\ ~(samples[k] >= High <=> v >= High) => (Excursion(n + 1))'
    <3> SUFFICES ASSUME v >= High \/ v <= Low, ~(samples[k] >= High <=> v >= High)
                 PROVE  (Excursion(n + 1))'
      OBVIOUS
    <3>1. /\ (Outside(k))' /\ \A m \in k + 1 .. n : ~(Outside(m))'
          /\ (samples'[k] >= High') # (samples'[n + 1] >= High')
      BY <2>3, <2>4
    <3> QED
      BY <1>3, <2>3, <3>1 DEF Excursion
  <2> QED
    BY <2>1, <2>6, <2>7, <1>4, <1>5, Zenon
<1> QED
  BY <1>4, <1>6, <1>7

-----------------------------------------------------------------------------
\* Reading a sample keeps the invariant.
LEMMA ReadKeeps ==
  ASSUME DetectorInv, NEW v \in Volts, Read(v)
  PROVE  DetectorInv'
<1>0. TypeOK /\ above \in BOOLEAN /\ Len(samples) \in Nat \ {0} /\ v \in Int
  BY ReadSample DEF DetectorInv, TypeOK
<1> PICK n \in Nat : n = Len(samples)
  BY <1>0
<1> DEFINE c == [at |-> n, rising |-> ~above]
<1>1. TypeOK /\ above \in BOOLEAN /\ n \in Nat \ {0} /\ v \in Int
  BY <1>0
<1>2. \/ Clears(v) /\ crossings' = Append(crossings, c) /\ above' = ~above
      \/ ~Clears(v) /\ crossings' = crossings /\ above' = above
  BY DEF Read, Cross, Stay
<1>3. TypeOK'
  <2>1. samples' \in Seq(Volts) /\ samples' # <<>> /\ threshold' \in Thresholds
    BY <1>1, ReadSample
  <2>2. c \in [at : Nat \ {0}, rising : BOOLEAN]
    BY <1>1
  <2>3. crossings' \in Seq([at : Nat \ {0}, rising : BOOLEAN])
    <3> DEFINE S == [at : Nat \ {0}, rising : BOOLEAN]
    <3>1. crossings \in Seq(S) /\ c \in S
      BY <1>1, <2>2 DEF TypeOK
    <3> HIDE DEF S, c
    <3>2. crossings' \in Seq(S)
      BY <1>2, <3>1
    <3> QED
      BY <3>2 DEF S
  <2>4. above' \in BOOLEAN
    BY <1>1, <1>2
  <2> QED
    BY <2>1, <2>3, <2>4 DEF TypeOK
<1>4. LastLedHere' /\ EdgesAlternate' /\ CrossingsWereRead'
  <2>1. LastLedHere /\ EdgesAlternate /\ CrossingsWereRead /\ crossings \in Seq([at : Nat \ {0}, rising : BOOLEAN])
    BY DEF DetectorInv, TypeOK
  <2>2. Len(samples) = n /\ Len(samples') = n + 1
    BY <1>1, ReadSample
  <2>5. Len(crossings) \in Nat /\ DOMAIN crossings = 1 .. Len(crossings)
    BY <2>1
  <2>6. \A k \in 1 .. Len(crossings) : crossings[k].at \in Nat
    <3> DEFINE S == [at : Nat \ {0}, rising : BOOLEAN]
    <3>1. \A k \in 1 .. Len(crossings) : crossings[k] \in S
      <4>1. crossings \in Seq(S)
        BY <2>1
      <4> HIDE DEF S
      <4> QED
        BY <4>1
    <3> QED
      BY <3>1
  <2>7. \A k \in 1 .. Len(crossings) : crossings[k].at < n
    BY <2>1, <2>2, <2>5 DEF CrossingsWereRead
  <2>3. CASE Clears(v)
    <3> PICK l \in Nat : l = Len(crossings)
      BY <2>5
    <3>1. /\ Len(crossings') = l + 1 /\ crossings'[l + 1] = c /\ DOMAIN crossings' = 1 .. l + 1
          /\ \A k \in 1 .. l : crossings'[k] = crossings[k]
          /\ c.rising = ~above /\ c.at = n /\ above' = ~above
      <4> DEFINE S == [at : Nat \ {0}, rising : BOOLEAN]
      <4>1. crossings \in Seq(S) /\ crossings' = Append(crossings, c) /\ above' = ~above
        BY <1>2, <2>1, <2>3
      <4>2. c.rising = ~above /\ c.at = n
        OBVIOUS
      <4> HIDE DEF S, c
      <4>3. /\ Len(crossings') = l + 1 /\ crossings'[l + 1] = c /\ DOMAIN crossings' = 1 .. l + 1
            /\ \A k \in 1 .. l : crossings'[k] = crossings[k]
        BY <2>5, <4>1
      <4> QED
        BY <4>1, <4>2, <4>3
    <3>2. LastLedHere'
      BY <3>1 DEF LastLedHere
    <3>3. EdgesAlternate'
      <4> SUFFICES ASSUME NEW k \in 1 .. l
                   PROVE  crossings'[k].rising # crossings'[k + 1].rising
        BY <2>5, <3>1 DEF EdgesAlternate
      <4>1. CASE k = l
        <5>1. crossings[l].rising = above
          BY <2>1, <2>5, <4>1 DEF LastLedHere
        <5>2. crossings'[k] = crossings[l] /\ crossings'[k + 1] = c
          BY <3>1, <4>1
        <5>3. ~above # above
          BY <1>1
        <5> QED
          BY <3>1, <5>1, <5>2, <5>3
      <4>2. CASE k # l
        <5>1. k \in 1 .. l - 1 /\ k + 1 \in 1 .. l
          BY <2>5, <4>2
        <5> QED
          BY <2>1, <3>1, <5>1 DEF EdgesAlternate
      <4> QED
        BY <4>1, <4>2
    <3>4. CrossingsWereRead'
      <4>1. \A k \in 1 .. l + 1 : crossings'[k].at < n + 1
        <5> SUFFICES ASSUME NEW k \in 1 .. l + 1 PROVE crossings'[k].at < n + 1
          OBVIOUS
        <5>1. CASE k = l + 1
          BY <1>1, <3>1, <5>1
        <5>2. CASE k \in 1 .. l
          BY <1>1, <2>6, <2>7, <3>1, <5>2
        <5> QED
          BY <2>5, <5>1, <5>2
      <4> QED
        BY <2>2, <3>1, <4>1 DEF CrossingsWereRead
    <3> QED
      BY <3>2, <3>3, <3>4
  <2>4. CASE ~Clears(v)
    <3>1. crossings' = crossings /\ above' = above
      BY <1>2, <2>4
    <3>2. LastLedHere' /\ EdgesAlternate'
      BY <2>1, <3>1 DEF LastLedHere, EdgesAlternate
    <3>3. \A k \in DOMAIN crossings : crossings[k].at < n + 1
      BY <1>1, <2>5, <2>6, <2>7
    <3> QED
      BY <2>2, <3>1, <3>2, <3>3 DEF CrossingsWereRead
  <2> QED
    BY <2>3, <2>4
<1>5. SideIsTrue'
  <2>1. \A k \in 1 .. n : (Outside(k))' <=> Outside(k)
    BY <1>1, ReadSample DEF Outside
  <2>2. (Outside(n + 1))' <=> v >= High \/ v <= Low
    BY <1>1, ReadSample DEF Outside
  <2>3. CASE v >= High \/ v <= Low
    <3>1. above' <=> v >= High
      <4>1. /\ High \in Int /\ Low \in Int /\ Low < High
        BY <1>1, BandIsOpen, ReadSample
      <4>2. CASE above
        <5>1. Clears(v) <=> ~(v >= High)
          BY <1>1, <2>3, <4>1, <4>2 DEF Clears
        <5>2. above' <=> ~Clears(v)
          BY <1>2, <4>2, Zenon
        <5> QED
          BY <5>1, <5>2
      <4>3. CASE ~above
        <5>1. Clears(v) <=> v >= High
          BY <1>1, <2>3, <4>1, <4>3 DEF Clears
        <5>2. above' <=> Clears(v)
          <6>1. CASE Clears(v)
            <7>1. above' = ~above
              BY <1>2, <6>1
            <7> QED
              BY <4>3, <6>1, <7>1
          <6>2. CASE ~Clears(v)
            <7>1. above' = above
              BY <1>2, <6>2
            <7> QED
              BY <4>3, <6>2, <7>1
          <6> QED
            BY <6>1, <6>2
        <5> QED
          BY <5>1, <5>2
      <4> QED
        BY <4>2, <4>3
    <3>2. /\ n + 1 \in DOMAIN samples' /\ Len(samples') = n + 1
          /\ (n + 1) + 1 .. n + 1 = {} /\ (above' <=> samples'[n + 1] >= High')
      <4>1. /\ DOMAIN samples' = 1 .. n + 1 /\ Len(samples') = n + 1
            /\ samples'[n + 1] = v /\ High' = High
        BY <1>1, ReadSample
      <4> QED
        BY <1>1, <3>1, <4>1
    <3> QED
      BY <2>2, <2>3, <3>2 DEF SideIsTrue
  <2>4. CASE ~(v >= High \/ v <= Low)
    <3>1. /\ above' = above /\ ~(Outside(n + 1))' /\ High' = High /\ threshold' = threshold
          /\ Len(samples) = n /\ Len(samples') = n + 1
          /\ DOMAIN samples = 1 .. n /\ DOMAIN samples' = 1 .. n + 1
          /\ \A i \in 1 .. n : samples'[i] = samples[i]
      BY <1>1, <1>2, <2>2, <2>4, BandIsOpen, ReadSample DEF Clears, TypeOK
    <3>2. ASSUME NEW k \in 1 .. n, Outside(k), \A m \in k + 1 .. n : ~Outside(m),
                 above <=> samples[k] >= High
          PROVE  SideIsTrue'
      <4>2. k \in 1 .. n + 1 /\ (Outside(k))' /\ (above' <=> samples'[k] >= High')
        BY <1>1, <2>1, <3>1, <3>2
      <4>3. \A m \in k + 1 .. n + 1 : ~(Outside(m))'
        BY <1>1, <2>1, <3>1, <3>2
      <4> QED
        BY <3>1, <4>2, <4>3 DEF SideIsTrue
    <3>3. CASE (\A k \in 1 .. n : ~Outside(k)) /\ (above <=> samples[1] > threshold.level)
      <4>1. \A k \in 1 .. n + 1 : ~(Outside(k))'
        BY <1>1, <2>1, <3>1, <3>3
      <4>2. above' <=> samples'[1] > threshold'.level
        BY <1>1, <3>1, <3>3
      <4> QED
        BY <3>1, <4>1, <4>2 DEF SideIsTrue
    <3> QED
      BY <3>1, <3>2, <3>3 DEF SideIsTrue, DetectorInv
  <2> QED
    BY <2>3, <2>4
<1>6. CrossingsAreExcursions'
  <2> DEFINE At(i, s) == \E k \in DOMAIN crossings : crossings[k] = [at |-> i - 1, rising |-> s[i] >= High]
             AtNow(i) == \E k \in DOMAIN crossings' : crossings'[k] = [at |-> i - 1, rising |-> samples'[i] >= High]
  <2>1. crossings \in Seq([at : Nat \ {0}, rising : BOOLEAN]) /\ CrossingsWereRead /\ SideIsTrue
    BY DEF DetectorInv, TypeOK
  <2>2. DOMAIN crossings = 1 .. Len(crossings) /\ Len(crossings) \in Nat
    BY <2>1
  <2>3. ASSUME NEW i \in 1 .. n PROVE (Excursion(i))' <=> AtNow(i)
    <3>1. Excursion(i) <=> At(i, samples)
      BY <1>1, ReadSample DEF DetectorInv, CrossingsAreExcursions
    <3>2. AtNow(i) <=> At(i, samples)
      <4> DEFINE found == [at |-> i - 1, rising |-> samples[i] >= High]
      <4>1. c.at # found.at /\ c # found
        BY <1>1
      <4>2. /\ samples'[i] = samples[i]
            /\ \A k \in 1 .. Len(crossings) : crossings'[k] = crossings[k]
            /\ \A k \in DOMAIN crossings' :
                 crossings'[k] = c \/ k \in 1 .. Len(crossings)
            /\ 1 .. Len(crossings) \subseteq DOMAIN crossings'
        <5> DEFINE S == [at : Nat \ {0}, rising : BOOLEAN]
        <5>1. crossings \in Seq(S) /\ (crossings' = Append(crossings, c) \/ crossings' = crossings)
          BY <1>2, <2>1
        <5> HIDE DEF S, c
        <5>2. /\ \A k \in 1 .. Len(crossings) : crossings'[k] = crossings[k]
              /\ \A k \in DOMAIN crossings' : crossings'[k] = c \/ k \in 1 .. Len(crossings)
              /\ 1 .. Len(crossings) \subseteq DOMAIN crossings'
          BY <2>2, <5>1
        <5> QED
          BY <1>1, <5>2, ReadSample
      <4>3. At(i, samples) <=> \E k \in 1 .. Len(crossings) : crossings[k] = found
        BY <2>2
      <4>4. AtNow(i) <=> \E k \in DOMAIN crossings' : crossings'[k] = found
        BY <4>2
      <4> HIDE DEF found, c
      <4> QED
        BY <4>1, <4>2, <4>3, <4>4
    <3> QED
      BY <1>1, <3>1, <3>2, PastIsSettled
  <2>4. (Excursion(n + 1))' <=> AtNow(n + 1)
    <3>1. \A k \in DOMAIN crossings : crossings[k].at # n
      BY <1>1, <2>1 DEF CrossingsWereRead
    <3>2. \A k \in DOMAIN crossings : crossings[k] # [at |-> (n + 1) - 1, rising |-> v >= High]
      BY <1>1, <3>1
    <3>3. CASE Clears(v)
      <4>1. (v >= High) = ~above
        BY <1>1, <2>1, <3>3, ExcursionClears, BandIsOpen DEF TypeOK
      <4>2. Len(crossings) + 1 \in DOMAIN crossings' /\ crossings'[Len(crossings) + 1] = c
        BY <1>2, <2>1, <2>2, <3>3
      <4>3. c = [at |-> (n + 1) - 1, rising |-> samples'[n + 1] >= High]
        BY <1>1, <4>1, ReadSample
      <4> QED
        BY <1>1, <2>1, <3>3, <4>2, <4>3, ExcursionClears
    <3>4. CASE ~Clears(v)
      BY <1>1, <1>2, <2>1, <3>2, <3>4, ExcursionClears, ReadSample
    <3> QED
      BY <3>3, <3>4
  <2>5. High' = High /\ DOMAIN samples' = 1 .. n + 1
    BY <1>1, ReadSample
  <2> QED
    BY <1>1, <2>3, <2>4, <2>5 DEF CrossingsAreExcursions
<1> QED
  BY <1>3, <1>4, <1>5, <1>6 DEF DetectorInv

-----------------------------------------------------------------------------
\* The invariant holds of every record read.
THEOREM DetectorCorrect == Spec => []DetectorInv
<1>1. DetectorInv /\ [Next]_vars => DetectorInv'
  <2> SUFFICES ASSUME DetectorInv, [Next]_vars PROVE DetectorInv'
    OBVIOUS
  <2>1. CASE UNCHANGED vars
    BY <2>1 DEF DetectorInv, TypeOK, LastLedHere, EdgesAlternate, SideIsTrue, CrossingsWereRead,
                CrossingsAreExcursions, Excursion, Outside, High, Low, vars
  <2>2. CASE Next
    BY <2>2, ReadKeeps DEF Next
  <2> QED
    BY <2>1, <2>2
<1> QED
  BY <1>1, InitDetector, PTL DEF Spec

\* Edges of the two directions alternate, in records of every length.
THEOREM DetectorAlternates == Spec => []EdgesAlternate
BY DetectorCorrect, PTL DEF DetectorInv

\* The crossings are the record's excursions past the band, and all of them: no
\* grazing is reported and no swing across the band is missed.
THEOREM DetectorFindsExcursions == Spec => []CrossingsAreExcursions
BY DetectorCorrect, PTL DEF DetectorInv

-----------------------------------------------------------------------------
\* What a quotient of naturals is, in products: q fits into it when q times b
\* fits into a.
LEMMA Quotient ==
  ASSUME NEW a \in Nat, NEW b \in Nat \ {0}, NEW q \in Nat
  PROVE  (a \div b) \in Nat /\ (q <= a \div b <=> q * b <= a)
<1> DEFINE d == a \div b
<1>1. d \in Nat /\ d * b <= a /\ a < (d + 1) * b
  OBVIOUS
<1> HIDE DEF d
<1>2. q <= d => q * b <= d * b
  BY <1>1
<1>3. d + 1 <= q => (d + 1) * b <= q * b
  BY <1>1
<1>4. q <= d <=> q * b <= a
  BY <1>1, <1>2, <1>3
<1>5. QED
  BY <1>1, <1>4 DEF d

\* Induction over the naturals, for a set of them.
LEMMA AllNaturals ==
  ASSUME NEW T, 0 \in T, \A n \in Nat : n \in T => n + 1 \in T
  PROVE  \A n \in Nat : n \in T
<1> DEFINE R == OpToRel(<, Nat)
           Rest == {n \in Nat : n \notin T}
<1> SUFFICES ASSUME Rest # {} PROVE FALSE
  OBVIOUS
<1>1. R = {ss \in Nat \X Nat : ss[1] < ss[2]}
  BY DEF OpToRel
<1>2. IsWellFoundedOn(R, Nat)
  BY NatLessThanWellFounded
<1> HIDE DEF R
<1>3. Rest \subseteq Nat
  OBVIOUS
<1> HIDE DEF Rest
<1>4. PICK n \in Rest : \A y \in Rest : ~ (<<y, n>> \in R)
  BY <1>2, <1>3, WFMin
<1>5. n \in Nat /\ n \notin T /\ n # 0
  BY <1>4 DEF Rest
<1>6. n - 1 \in Nat /\ n - 1 \notin T
  BY <1>5
<1>7. n - 1 \in Rest
  BY <1>6 DEF Rest
<1>8. <<n - 1, n>> \in R
  BY <1>1, <1>5, <1>6
<1>9. QED
  BY <1>4, <1>7, <1>8

\* An order is transitive.
LEMMA Between == \A x, y, z \in Int : x <= y /\ y <= z => x <= z
  OBVIOUS

\* The least and the greatest of two numbers.
LEMMA OfTwo ==
  ASSUME NEW a \in Int, NEW b \in Int
  PROVE  /\ Min({a, b}) = IF a <= b THEN a ELSE b
         /\ Max({a, b}) = IF a >= b THEN a ELSE b
<1>1. \E x \in {a, b} : \A y \in {a, b} : x <= y
  OBVIOUS
<1>2. Min({a, b}) \in {a, b} /\ \A y \in {a, b} : Min({a, b}) <= y
  BY <1>1 DEF Min
<1>3. \E x \in {a, b} : \A y \in {a, b} : x >= y
  OBVIOUS
<1>4. Max({a, b}) \in {a, b} /\ \A y \in {a, b} : Max({a, b}) >= y
  BY <1>3 DEF Max
<1>5. QED
  BY <1>2, <1>4

\* The extremes of a column that has samples are samples of it, and bound them all.
LEMMA ExtremesBound ==
  ASSUME NEW s \in Seq(Int), NEW lo \in Nat, NEW hi \in Nat, lo <= hi, hi < Len(s)
  PROVE  /\ \E i \in lo .. hi : Extremes(s, lo .. hi).top = s[i + 1]
         /\ \E i \in lo .. hi : Extremes(s, lo .. hi).bottom = s[i + 1]
         /\ \A i \in lo .. hi : /\ Extremes(s, lo .. hi).bottom <= s[i + 1]
                                /\ s[i + 1] <= Extremes(s, lo .. hi).top
<1>1. \A i \in lo .. hi : s[i + 1] \in Int
  <2>1. \A i \in lo .. hi : i + 1 \in 1 .. Len(s)
    OBVIOUS
  <2>2. QED
    BY <2>1
<1> DEFINE Bounds(j, k, n) == \A i \in lo .. n : s[j + 1] <= s[i + 1] /\ s[i + 1] <= s[k + 1]
           T == {n \in Nat : lo + n <= hi => \E j, k \in lo .. lo + n : Bounds(j, k, lo + n)}
<1>2. 0 \in T
  <2>1. Bounds(lo, lo, lo + 0)
    BY <1>1
  <2>2. QED
    BY <2>1
<1>3. ASSUME NEW n \in Nat, n \in T PROVE n + 1 \in T
  <2> SUFFICES ASSUME lo + (n + 1) <= hi
               PROVE  \E j, k \in lo .. lo + (n + 1) : Bounds(j, k, lo + (n + 1))
    OBVIOUS
  <2>1. PICK j \in lo .. lo + n, k \in lo .. lo + n : Bounds(j, k, lo + n)
    BY <1>3
  <2> DEFINE m == lo + (n + 1)
             a == IF s[m + 1] <= s[j + 1] THEN m ELSE j
             b == IF s[k + 1] <= s[m + 1] THEN m ELSE k
  <2>2. m \in lo .. hi /\ j \in lo .. hi /\ k \in lo .. hi /\ m = lo + n + 1
    OBVIOUS
  <2>3. s[m + 1] \in Int /\ s[j + 1] \in Int /\ s[k + 1] \in Int
    BY <1>1, <2>2
  <2>4. a \in lo .. m /\ b \in lo .. m /\ s[a + 1] <= s[m + 1] /\ s[a + 1] <= s[j + 1]
        /\ s[m + 1] <= s[b + 1] /\ s[k + 1] <= s[b + 1] /\ s[a + 1] \in Int /\ s[b + 1] \in Int
    BY <2>2, <2>3
  <2> HIDE DEF a, b, m
  <2>5. ASSUME NEW i \in lo .. m PROVE s[a + 1] <= s[i + 1] /\ s[i + 1] <= s[b + 1]
    <3>1. CASE i = m
      BY <2>4, <3>1
    <3>2. CASE i # m
      <4>1. i \in lo .. lo + n /\ i \in lo .. hi
        BY <2>2, <3>2
      <4>2. s[j + 1] <= s[i + 1] /\ s[i + 1] <= s[k + 1] /\ s[i + 1] \in Int
        BY <1>1, <2>1, <4>1
      <4>3. s[a + 1] <= s[i + 1]
        BY <2>3, <2>4, <4>2, Between
      <4>4. s[i + 1] <= s[b + 1]
        BY <2>3, <2>4, <4>2, Between
      <4>5. QED
        BY <4>3, <4>4
    <3>3. QED
      BY <3>1, <3>2
  <2>6. QED
    BY <2>4, <2>5 DEF m
<1> HIDE DEF T
<1>4. \A n \in Nat : n \in T
  <2>1. \A n \in Nat : n \in T => n + 1 \in T
    BY <1>3
  <2>2. QED
    BY <1>2, <2>1, AllNaturals
<1>5. PICK j \in lo .. hi, k \in lo .. hi : Bounds(j, k, hi)
  <2>1. hi - lo \in Nat /\ lo + (hi - lo) = hi
    OBVIOUS
  <2>2. hi - lo \in T
    BY <1>4, <2>1
  <2>3. \E j, k \in lo .. lo + (hi - lo) : Bounds(j, k, lo + (hi - lo))
    BY <2>1, <2>2 DEF T
  <2>4. QED
    BY <2>1, <2>3
<1> DEFINE volts == {s[i + 1] : i \in lo .. hi}
<1>6. s[j + 1] \in volts /\ s[k + 1] \in volts /\ \A v \in volts : s[j + 1] <= v /\ s[k + 1] >= v
  BY <1>1, <1>5
<1>7. Extremes(s, lo .. hi) = [top |-> Max(volts), bottom |-> Min(volts)]
  BY DEF Extremes
<1> DEFINE top == Max(volts)
           bottom == Min(volts)
<1>8. top \in volts /\ bottom \in volts /\ \A v \in volts : bottom <= v /\ v <= top
  <2>1. bottom \in volts /\ \A v \in volts : bottom <= v
    BY <1>6 DEF Min
  <2>2. top \in volts /\ \A v \in volts : top >= v
    BY <1>6 DEF Max
  <2>3. QED
    BY <1>1, <2>1, <2>2
<1>9. Extremes(s, lo .. hi) = [top |-> top, bottom |-> bottom]
  BY <1>7
<1> HIDE DEF top, bottom, volts
<1>11. Extremes(s, lo .. hi).top = top /\ Extremes(s, lo .. hi).bottom = bottom
  BY <1>9
<1>12. top \in {s[i + 1] : i \in lo .. hi} /\ bottom \in {s[i + 1] : i \in lo .. hi}
       /\ \A v \in {s[i + 1] : i \in lo .. hi} : bottom <= v /\ v <= top
  BY <1>8 DEF volts
<1>10. QED
  BY <1>11, <1>12

\* Where the samples of a column begin, counted from the first of the viewport.
Begins(count, columns, c) == (count * c) \div columns

\* With more samples than pixels, a column begins where the one before it ended,
\* and it ends later: no min() or max() of the code is needed then.
LEMMA SpanIs ==
  ASSUME NEW first \in Nat, NEW columns \in Nat \ {0}, NEW count \in Nat, count > columns,
         NEW c \in 0 .. columns - 1
  PROVE  /\ Begins(count, columns, c) \in Nat /\ Begins(count, columns, c + 1) \in Nat
         /\ Begins(count, columns, c) < Begins(count, columns, c + 1)
         /\ Begins(count, columns, c + 1) <= count
         /\ Span(first, count, columns, c)
              = first + Begins(count, columns, c) .. first + Begins(count, columns, c + 1) - 1
<1> DEFINE a == count * c
           b == count * (c + 1)
           lo == a \div columns
           hi == b \div columns
<1>1. a \in Nat /\ b \in Nat /\ b = a + count /\ b <= count * columns
  <2>1. c \in Nat /\ c + 1 \in Nat /\ c + 1 <= columns
    OBVIOUS
  <2>2. QED
    BY <2>1
<1> HIDE DEF a, b
<1>2. lo \in Nat /\ hi \in Nat
  BY <1>1, Quotient
<1>3. lo + 1 <= hi
  <2>1. lo * columns <= a
    BY <1>1, <1>2, Quotient
  <2> HIDE DEF lo, hi
  <2>2. (lo + 1) * columns <= b
    BY <1>1, <1>2, <2>1
  <2>3. QED
    BY <1>1, <1>2, <2>2, Quotient DEF hi
<1>4. hi <= count
  <2>1. hi * columns <= b
    BY <1>1, <1>2, Quotient
  <2> HIDE DEF lo, hi
  <2>2. hi * columns <= count * columns
    BY <1>1, <1>2, <2>1
  <2>3. QED
    BY <1>2, <2>2
<1>5. Span(first, count, columns, c)
        = first + lo .. Min({Max({first + hi, first + lo + 1}), first + count}) - 1
  BY DEF Span, a, b
<1> HIDE DEF lo, hi
<1>6. Max({first + hi, first + lo + 1}) = first + hi
  BY <1>2, <1>3, OfTwo
<1>7. Min({first + hi, first + count}) = first + hi
  BY <1>2, <1>4, OfTwo
<1>8. Begins(count, columns, c) = lo /\ Begins(count, columns, c + 1) = hi
  BY DEF Begins, lo, hi, a, b
<1>9. Span(first, count, columns, c) = first + lo .. first + hi - 1
  <2>1. Span(first, count, columns, c) = first + lo .. Min({first + hi, first + count}) - 1
    BY <1>5, <1>6
  <2> DEFINE last == Min({first + hi, first + count})
  <2>2. last = first + hi /\ Span(first, count, columns, c) = first + lo .. last - 1
    BY <1>7, <2>1
  <2> HIDE DEF last
  <2>3. QED
    BY <1>2, <2>2
<1>10. QED
  BY <1>2, <1>3, <1>4, <1>8, <1>9

\* Envelope() is what its recursion says: there is a function that it defines.
Column(s, first, count, columns, c) == Extremes(s, Span(first, count, columns, c))
Pair(e) == {<<e.top, e.bottom>>, <<e.bottom, e.top>>}

\* The first column is drawn from its top, and every other one from the extreme
\* that is nearer to where the path left the column before it.
LEMMA EnvelopeStep ==
  ASSUME NEW s, NEW first, NEW count, NEW columns \in Nat \ {0}
  PROVE  /\ Envelope(s, first, count, columns)[0]
              = <<Column(s, first, count, columns, 0).top, Column(s, first, count, columns, 0).bottom>>
         /\ \A x \in 0 .. columns - 2 :
              Envelope(s, first, count, columns)[x + 1]
                = Order(Column(s, first, count, columns, x + 1),
                        Envelope(s, first, count, columns)[x][2])
<1> DEFINE column(c) == Column(s, first, count, columns, c)
           Draws(f, n) == f = [c \in 0 .. n |-> IF c = 0 THEN <<column(0).top, column(0).bottom>>
                                               ELSE Order(column(c), f[c - 1][2])]
           T == {n \in Nat : \E f : Draws(f, n)}
<1> HIDE DEF Column
<1>1. 0 \in T
  <2> DEFINE f == [c \in 0 .. 0 |-> <<column(0).top, column(0).bottom>>]
  <2>1. Draws(f, 0)
    OBVIOUS
  <2>2. QED
    BY <2>1
<1>2. ASSUME NEW n \in Nat, n \in T PROVE n + 1 \in T
  <2>1. PICK f : Draws(f, n)
    BY <1>2
  <2> DEFINE g == [c \in 0 .. n + 1 |-> IF c = n + 1 THEN Order(column(n + 1), f[n][2]) ELSE f[c]]
  <2>2. ASSUME NEW c \in 0 .. n + 1
        PROVE  g[c] = IF c = 0 THEN <<column(0).top, column(0).bottom>>
                      ELSE Order(column(c), g[c - 1][2])
    <3>1. CASE c = n + 1
      BY <3>1
    <3>2. CASE c \in 0 .. n /\ c # 0
      <4>1. c - 1 \in 0 .. n /\ c - 1 # n + 1 /\ c # n + 1 /\ c - 1 \in 0 .. n + 1
        BY <3>2
      <4>2. g[c] = f[c] /\ g[c - 1] = f[c - 1]
        BY <4>1
      <4>3. f[c] = Order(column(c), f[c - 1][2])
        BY <2>1, <3>2
      <4>4. QED
        BY <3>2, <4>2, <4>3
    <3>3. CASE c = 0
      BY <2>1, <3>3
    <3>4. QED
      BY <3>1, <3>2, <3>3
  <2>3. Draws(g, n + 1)
    BY <2>2
  <2> HIDE DEF g, Draws
  <2>4. QED
    BY <2>3
<1>3. \A n \in Nat : n \in T
  <2> HIDE DEF T
  <2>1. \A n \in Nat : n \in T => n + 1 \in T
    BY <1>2
  <2>2. QED
    BY <1>1, <2>1, AllNaturals
<1>4. \E f : Draws(f, columns - 1)
  <2>1. columns - 1 \in Nat
    OBVIOUS
  <2> HIDE DEF Draws
  <2>2. columns - 1 \in T
    <3> HIDE DEF T
    <3>1. QED
      BY <1>3, <2>1
  <2>3. QED
    BY <2>2
<1> DEFINE drawn == Envelope(s, first, count, columns)
<1>5. drawn = CHOOSE f : Draws(f, columns - 1)
  BY DEF Envelope, Column
<1>6. Draws(drawn, columns - 1)
  <2> HIDE DEF Draws, drawn
  <2>1. QED
    BY <1>4, <1>5
<1> HIDE DEF drawn
<1>7. drawn[0] = <<column(0).top, column(0).bottom>>
  <2>1. 0 \in 0 .. columns - 1
    OBVIOUS
  <2>2. QED
    BY <1>6, <2>1
<1>8. ASSUME NEW x \in 0 .. columns - 2
      PROVE  drawn[x + 1] = Order(column(x + 1), drawn[x][2])
  <2>1. x + 1 \in 0 .. columns - 1 /\ x + 1 # 0 /\ (x + 1) - 1 = x
    OBVIOUS
  <2>2. drawn[x + 1] = Order(column(x + 1), drawn[(x + 1) - 1][2])
    BY <1>6, <2>1
  <2>3. QED
    BY <2>1, <2>2
<1>9. QED
  BY <1>7, <1>8 DEF drawn

\* So it is drawn between the extremes of its span, in one of the two orders.
LEMMA EnvelopeIs ==
  ASSUME NEW s, NEW first, NEW count, NEW columns \in Nat \ {0}, NEW x \in 0 .. columns - 1
  PROVE  Envelope(s, first, count, columns)[x] \in Pair(Column(s, first, count, columns, x))
<1>1. CASE x = 0
  BY <1>1, EnvelopeStep DEF Pair
<1>2. CASE x # 0
  <2>1. \A e, exit : Order(e, exit) \in Pair(e)
    BY DEF Order, Pair
  <2>2. PICK y \in 0 .. columns - 2 : y + 1 = x
    <3>1. x - 1 \in 0 .. columns - 2 /\ (x - 1) + 1 = x
      BY <1>2
    <3>2. QED
      BY <3>1
  <2>3. Envelope(s, first, count, columns)[y + 1]
          = Order(Column(s, first, count, columns, y + 1), Envelope(s, first, count, columns)[y][2])
    BY EnvelopeStep
  <2>4. QED
    BY <2>1, <2>2, <2>3
<1>3. QED
  BY <1>1, <1>2

\* Where a sample is drawn: the column whose span it is in.
PixelOf(i, first, count, columns) == ((i - first + 1) * columns - 1) \div count

\* The pixel of a sample is a column, and the span of that column holds the
\* sample.
LEMMA InItsColumn ==
  ASSUME NEW first \in Nat, NEW columns \in Nat \ {0}, NEW count \in Nat, count > columns,
         NEW i \in first .. first + count - 1
  PROVE  /\ PixelOf(i, first, count, columns) \in 0 .. columns - 1
         /\ i \in Span(first, count, columns, PixelOf(i, first, count, columns))
<1> DEFINE j == i - first
           m == (j + 1) * columns - 1
           x == m \div count
<1>1. j \in 0 .. count - 1 /\ count \in Nat \ {0}
  OBVIOUS
<1> HIDE DEF j
<1>2. m \in Nat /\ m < count * columns
  <2>1. (j + 1) * columns <= count * columns /\ columns <= (j + 1) * columns
    BY <1>1
  <2>2. QED
    BY <2>1, <1>1
<1>3. x \in Nat /\ x * count <= m
  <2> HIDE DEF m
  <2>1. x \in Nat
    BY <1>1, <1>2, Quotient
  <2>2. QED
    BY <1>1, <1>2, <2>1, Quotient
<1>4. m < (x + 1) * count
  <2> HIDE DEF m
  <2>1. x + 1 \in Nat /\ ~(x + 1 <= m \div count)
    BY <1>3
  <2>2. QED
    BY <1>1, <1>2, <2>1, Quotient
<1> HIDE DEF x
<1>5. x < columns
  BY <1>1, <1>2, <1>3
<1>6. x \in 0 .. columns - 1
  BY <1>3, <1>5
<1>7. Begins(count, columns, x) <= j
  <2> DEFINE b == Begins(count, columns, x)
  <2>1. count * x \in Nat /\ count * x < (j + 1) * columns
    BY <1>1, <1>2, <1>3
  <2>2. b \in Nat /\ b * columns <= count * x
    BY <2>1, Quotient DEF Begins
  <2> HIDE DEF b
  <2>3. b * columns < (j + 1) * columns
    BY <1>1, <2>1, <2>2
  <2>4. b < j + 1
    BY <1>1, <2>2, <2>3
  <2>5. QED
    BY <1>1, <2>2, <2>4 DEF b
<1>8. j + 1 <= Begins(count, columns, x + 1)
  <2>1. count * (x + 1) \in Nat /\ (j + 1) * columns <= count * (x + 1) /\ j + 1 \in Nat
    BY <1>1, <1>2, <1>3, <1>4
  <2>2. QED
    BY <2>1, Quotient DEF Begins
<1> DEFINE lo == Begins(count, columns, x)
           hi == Begins(count, columns, x + 1)
<1>9. lo \in Nat /\ hi \in Nat /\ Span(first, count, columns, x) = first + lo .. first + hi - 1
  BY <1>6, SpanIs
<1>10. lo <= j /\ j + 1 <= hi
  BY <1>7, <1>8
<1> HIDE DEF lo, hi
<1>11. i \in first + lo .. first + hi - 1
  BY <1>9, <1>10 DEF j
<1>12. i \in Span(first, count, columns, x)
  BY <1>9, <1>11
<1>13. PixelOf(i, first, count, columns) = x
  BY DEF PixelOf, x, m, j
<1>14. QED
  BY <1>6, <1>12, <1>13

\* A span is not empty and is inside the viewport.
LEMMA SpanWithin ==
  \A first \in Nat, columns \in Nat \ {0}, count \in Nat : \A c \in 0 .. columns - 1 :
    count > columns =>
      \E lo, hi \in Nat : /\ lo <= hi /\ hi < first + count /\ lo >= first
                          /\ Span(first, count, columns, c) = lo .. hi
<1> SUFFICES ASSUME NEW first \in Nat, NEW columns \in Nat \ {0}, NEW count \in Nat,
                    NEW c \in 0 .. columns - 1, count > columns
             PROVE  \E lo, hi \in Nat : /\ lo <= hi /\ hi < first + count /\ lo >= first
                                        /\ Span(first, count, columns, c) = lo .. hi
  OBVIOUS
<1> DEFINE a == Begins(count, columns, c)
           b == Begins(count, columns, c + 1)
<1>1. a \in Nat /\ b \in Nat /\ a < b /\ b <= count
      /\ Span(first, count, columns, c) = first + a .. first + b - 1
  BY SpanIs
<1> HIDE DEF a, b
<1>2. first + a \in Nat /\ first + b - 1 \in Nat /\ first + a <= first + b - 1
      /\ first + b - 1 < first + count /\ first + a >= first
  BY <1>1
<1>3. QED
  BY <1>1, <1>2

\* The record is one: it has a sample, and they are numbers.
IsRecord == samples \in Seq(Int) /\ Len(samples) \in Nat \ {0}

\* The record of every state is one.
LEMMA RecordKept == TypeOK => IsRecord
<1> SUFFICES ASSUME TypeOK PROVE IsRecord
  OBVIOUS
<1>1. samples \in Seq(Volts) /\ samples # <<>> /\ Volts \subseteq Int
  BY DetectorAssumption DEF TypeOK
<1>2. samples \in Seq(Int)
  <2>1. PICK n \in Nat : samples \in [1 .. n -> Volts]
    BY <1>1, SeqDef
  <2>2. samples \in [1 .. n -> Int]
    BY <1>1, <2>1
  <2>3. QED
    BY <2>2, SeqDef
<1>3. Len(samples) \in Nat /\ Len(samples) # 0
  BY <1>1, <1>2, EmptySeq
<1>4. QED
  BY <1>2, <1>3 DEF IsRecord

Path(first, count, columns) ==
  [i \in 1 .. 2 * columns |->
     Vertex((i - 1) \div 2, Envelope(samples, first, count, columns)[(i - 1) \div 2][((i - 1) % 2) + 1])]

\* decimate(): the two ways a trace is made.
LEMMA TraceIs ==
  ASSUME IsRecord, NEW first \in 0 .. Len(samples) - 1, NEW columns \in Nat \ {0},
         NEW count, count = Len(samples) - first
  PROVE  /\ count <= columns =>
              Trace(first, columns) = [i \in 1 .. count |-> Vertex(i - 1, samples[first + i])]
         /\ count > columns =>
              Trace(first, columns) = Path(first, count, columns)
<1>1. Len(samples) \in Nat /\ first \in Nat /\ first < Len(samples) /\ count \in Nat
  BY DEF IsRecord
<1>2. FirstOf(samples, first) = first
  BY <1>1, OfTwo DEF FirstOf
<1>3. CountOf(samples, first, Len(samples)) = count
  <2>1. CountOf(samples, first, Len(samples)) = Min({Len(samples), count})
    BY <1>2 DEF CountOf
  <2>2. QED
    BY <1>1, <2>1, OfTwo
<1>4. CASE count <= columns
  BY <1>1, <1>2, <1>3, <1>4 DEF Trace, Decimate
<1>5. CASE count > columns
  <2>1. ~(count <= columns)
    BY <1>1, <1>5
  <2>2. QED
    BY <1>2, <1>3, <1>5, <2>1 DEF Trace, Decimate, Path
<1>6. QED
  BY <1>4, <1>5

\* A column of the envelope: its two vertices are samples of its span, and one of
\* them is below, the other above every sample of it.
LEMMA ColumnIsSampled ==
  ASSUME IsRecord, NEW first \in Nat, NEW columns \in Nat \ {0}, NEW count \in Nat,
         first + count <= Len(samples), count > columns, NEW x \in 0 .. columns - 1
  PROVE  LET pair == Envelope(samples, first, count, columns)[x]
             span == Span(first, count, columns, x)
         IN  /\ span \subseteq first .. Len(samples) - 1
             /\ \A n \in {1, 2} : \E i \in span : pair[n] = Sample(i)
             /\ \A i \in span : \E n, k \in {1, 2} : pair[n] <= Sample(i) /\ Sample(i) <= pair[k]
<1> DEFINE pair == Envelope(samples, first, count, columns)[x]
           e == Column(samples, first, count, columns, x)
           span == Span(first, count, columns, x)
<1>1. Len(samples) \in Nat /\ samples \in Seq(Int)
  BY DEF IsRecord
<1>2. PICK lo \in Nat, hi \in Nat :
        lo <= hi /\ hi < Len(samples) /\ lo >= first /\ span = lo .. hi
  <2> HIDE DEF pair, e, span
  <2>2. \E lo, hi \in Nat : /\ lo <= hi /\ hi < first + count /\ lo >= first
                            /\ Span(first, count, columns, x) = lo .. hi
    <3>1. \A c \in 0 .. columns - 1 :
            count > columns =>
              \E lo, hi \in Nat : /\ lo <= hi /\ hi < first + count /\ lo >= first
                                  /\ Span(first, count, columns, c) = lo .. hi
      BY SpanWithin, Zenon
    <3>2. QED
      BY <3>1, Zenon
  <2>3. PICK lo \in Nat, hi \in Nat : /\ lo <= hi /\ hi < first + count /\ lo >= first
                                      /\ Span(first, count, columns, x) = lo .. hi
    BY <2>2, Zenon
  <2>4. span = lo .. hi
    BY <2>3 DEF span
  <2>5. hi < Len(samples)
    BY <1>1, <2>3
  <2>6. QED
    BY <2>3, <2>4, <2>5
<1>3. pair \in Pair(e)
  BY EnvelopeIs
<1>4. e = Extremes(samples, lo .. hi)
  BY <1>2 DEF Column
<1> HIDE DEF e, span, pair
<1>5. /\ \E i \in lo .. hi : e.top = samples[i + 1]
      /\ \E i \in lo .. hi : e.bottom = samples[i + 1]
      /\ \A i \in lo .. hi : e.bottom <= samples[i + 1] /\ samples[i + 1] <= e.top
  <2>1. /\ \E i \in lo .. hi : Extremes(samples, lo .. hi).top = samples[i + 1]
        /\ \E i \in lo .. hi : Extremes(samples, lo .. hi).bottom = samples[i + 1]
        /\ \A i \in lo .. hi : /\ Extremes(samples, lo .. hi).bottom <= samples[i + 1]
                               /\ samples[i + 1] <= Extremes(samples, lo .. hi).top
    BY <1>1, <1>2, ExtremesBound
  <2>2. QED
    BY <1>4, <2>1
<1>6. pair = <<e.top, e.bottom>> \/ pair = <<e.bottom, e.top>>
  BY <1>3 DEF Pair
<1>7. \A n \in {1, 2} : \E i \in span : pair[n] = Sample(i)
  <2>1. CASE pair = <<e.top, e.bottom>>
    BY <1>2, <1>5, <2>1 DEF Sample
  <2>2. CASE pair = <<e.bottom, e.top>>
    BY <1>2, <1>5, <2>2 DEF Sample
  <2>3. QED
    BY <1>6, <2>1, <2>2
<1>8. ASSUME NEW i \in span
      PROVE  \E n, k \in {1, 2} : pair[n] <= Sample(i) /\ Sample(i) <= pair[k]
  <2>1. e.bottom <= Sample(i) /\ Sample(i) <= e.top
    BY <1>2, <1>5, <1>8 DEF Sample
  <2>2. CASE pair = <<e.top, e.bottom>>
    <3>1. pair[2] <= Sample(i) /\ Sample(i) <= pair[1]
      BY <2>1, <2>2
    <3>2. QED
      BY <3>1
  <2>3. CASE pair = <<e.bottom, e.top>>
    <3>1. pair[1] <= Sample(i) /\ Sample(i) <= pair[2]
      BY <2>1, <2>3
    <3>2. QED
      BY <3>1
  <2>4. QED
    BY <1>6, <2>2, <2>3
<1>9. span \subseteq first .. Len(samples) - 1
  BY <1>1, <1>2
<1>10. QED
  BY <1>7, <1>8, <1>9 DEF pair, span

\* The columns of a pixel's two vertices, and the vertices' places in their column.
LEMMA PixelAndEnd ==
  /\ \A columns \in Nat \ {0} : \A p \in 1 .. 2 * columns :
       (p - 1) \div 2 \in 0 .. columns - 1 /\ ((p - 1) % 2) + 1 \in {1, 2}
  /\ \A columns \in Nat \ {0} : \A x \in 0 .. columns - 1 : \A n \in {1, 2} :
       2 * x + n \in 1 .. 2 * columns /\ (2 * x + n - 1) \div 2 = x /\ ((2 * x + n - 1) % 2) + 1 = n
<1>1. ASSUME NEW columns \in Nat \ {0}, NEW p \in 1 .. 2 * columns
      PROVE  (p - 1) \div 2 \in 0 .. columns - 1 /\ ((p - 1) % 2) + 1 \in {1, 2}
  OBVIOUS
<1>2. ASSUME NEW columns \in Nat \ {0}, NEW x \in 0 .. columns - 1, NEW n \in {1, 2}
      PROVE  2 * x + n \in 1 .. 2 * columns /\ (2 * x + n - 1) \div 2 = x /\ ((2 * x + n - 1) % 2) + 1 = n
  <2>1. CASE n = 1
    BY <2>1
  <2>2. CASE n = 2
    BY <2>2
  <2>3. QED
    BY <2>1, <2>2
<1>3. QED
  BY <1>1, <1>2

\* The two lemmas on columns together, for a viewport that is cut from the record.
ColumnsAreSampled(first, count, columns) ==
  /\ \A x \in 0 .. columns - 1 :
       /\ Span(first, count, columns, x) \subseteq first .. Len(samples) - 1
       /\ \A n \in {1, 2} : \E i \in Span(first, count, columns, x) :
            Envelope(samples, first, count, columns)[x][n] = Sample(i)
       /\ \A i \in Span(first, count, columns, x) : \E n, k \in {1, 2} :
            /\ Envelope(samples, first, count, columns)[x][n] <= Sample(i)
            /\ Sample(i) <= Envelope(samples, first, count, columns)[x][k]
  /\ \A i \in first .. first + count - 1 :
       /\ PixelOf(i, first, count, columns) \in 0 .. columns - 1
       /\ i \in Span(first, count, columns, PixelOf(i, first, count, columns))

\* Both at once, as one fact to instantiate.
LEMMA ViewportColumns ==
  IsRecord =>
    \A first, count \in Nat, columns \in Nat \ {0} :
      first + count <= Len(samples) /\ count > columns => ColumnsAreSampled(first, count, columns)
<1> SUFFICES ASSUME IsRecord, NEW first \in Nat, NEW count \in Nat, NEW columns \in Nat \ {0},
                    first + count <= Len(samples), count > columns
             PROVE  ColumnsAreSampled(first, count, columns)
  OBVIOUS
<1>1. ASSUME NEW x \in 0 .. columns - 1
      PROVE  /\ Span(first, count, columns, x) \subseteq first .. Len(samples) - 1
             /\ \A n \in {1, 2} : \E i \in Span(first, count, columns, x) :
                  Envelope(samples, first, count, columns)[x][n] = Sample(i)
             /\ \A i \in Span(first, count, columns, x) : \E n, k \in {1, 2} :
                  /\ Envelope(samples, first, count, columns)[x][n] <= Sample(i)
                  /\ Sample(i) <= Envelope(samples, first, count, columns)[x][k]
  BY ColumnIsSampled
<1>2. ASSUME NEW i \in first .. first + count - 1
      PROVE  /\ PixelOf(i, first, count, columns) \in 0 .. columns - 1
             /\ i \in Span(first, count, columns, PixelOf(i, first, count, columns))
  BY InItsColumn
<1>3. QED
  BY <1>1, <1>2, Zenon DEF ColumnsAreSampled

\* What is asked of the trace of one viewport.
ViewportIsSampled(first, columns, count) ==
  LET trace == Trace(first, columns)
      under(i, x) == \E p, q \in DOMAIN trace :
                       /\ trace[p].x = x /\ trace[q].x = x
                       /\ trace[p].v <= Sample(i) /\ Sample(i) <= trace[q].v
  IN  /\ \A p \in DOMAIN trace : \E i \in first .. Len(samples) - 1 : trace[p].v = Sample(i)
      /\ count > columns =>
           \A i \in first .. Len(samples) - 1 :
             under(i, ((i - first + 1) * columns - 1) \div count)

\* The trace of every viewport of a record shows the record.
LEMMA TraceIsSampled ==
  ASSUME IsRecord, NEW first \in 0 .. Len(samples) - 1, NEW columns \in Nat \ {0},
         NEW count \in Nat \ {0}, count = Len(samples) - first
  PROVE  ViewportIsSampled(first, columns, count)
<1> DEFINE trace == Trace(first, columns)
<1>1. Len(samples) \in Nat /\ first \in Nat /\ first < Len(samples) /\ first + count = Len(samples)
      /\ count \in Nat /\ first + count <= Len(samples)
  BY DEF IsRecord
<1>2. CASE count <= columns
  <2>1. trace = [i \in 1 .. count |-> Vertex(i - 1, samples[first + i])]
    BY <1>1, <1>2, TraceIs
  <2> HIDE DEF trace
  <2>2. ASSUME NEW p \in DOMAIN trace
        PROVE  \E i \in first .. Len(samples) - 1 : trace[p].v = Sample(i)
    <3>1. p \in 1 .. count /\ trace[p].v = samples[first + p]
      BY <2>1, <2>2 DEF Vertex
    <3>2. first + p - 1 \in first .. Len(samples) - 1 /\ (first + p - 1) + 1 = first + p
      BY <1>1, <3>1
    <3>3. QED
      BY <3>1, <3>2 DEF Sample
  <2>3. ~(count > columns)
    BY <1>1, <1>2
  <2>4. QED
    BY <2>2, <2>3 DEF ViewportIsSampled, trace
<1>3. CASE count > columns
  <2> DEFINE drawn == Envelope(samples, first, count, columns)
             span(x) == Span(first, count, columns, x)
  <2>1. trace = [i \in 1 .. 2 * columns |-> Vertex((i - 1) \div 2, drawn[(i - 1) \div 2][((i - 1) % 2) + 1])]
    <3> HIDE DEF trace
    <3>1. count > columns =>
              Trace(first, columns) = Path(first, count, columns)
      BY TraceIs, Zenon
    <3>2. QED
      BY <1>3, <3>1, Zenon DEF trace, Path
  <2>2. /\ \A x \in 0 .. columns - 1 :
             /\ span(x) \subseteq first .. Len(samples) - 1
             /\ \A n \in {1, 2} : \E i \in span(x) : drawn[x][n] = Sample(i)
             /\ \A i \in span(x) : \E n, k \in {1, 2} :
                  drawn[x][n] <= Sample(i) /\ Sample(i) <= drawn[x][k]
        /\ \A i \in first .. first + count - 1 :
             /\ PixelOf(i, first, count, columns) \in 0 .. columns - 1
             /\ i \in span(PixelOf(i, first, count, columns))
    <3>1. ColumnsAreSampled(first, count, columns)
      BY <1>1, <1>3, ViewportColumns, Zenon
    <3>2. QED
      BY <3>1, Zenon DEF ColumnsAreSampled
  <2>3. \A i \in first .. Len(samples) - 1 :
          /\ PixelOf(i, first, count, columns) \in 0 .. columns - 1
          /\ i \in span(PixelOf(i, first, count, columns))
    <3> HIDE DEF span, drawn, trace
    <3>1. first .. Len(samples) - 1 = first .. first + count - 1
      BY <1>1
    <3>2. QED
      BY <2>2, <3>1, Zenon
  <2> HIDE DEF trace, drawn, span
  <2>4. DOMAIN trace = 1 .. 2 * columns
    BY <2>1
  <2>5. ASSUME NEW p \in DOMAIN trace
        PROVE  \E i \in first .. Len(samples) - 1 : trace[p].v = Sample(i)
    <3> DEFINE x == (p - 1) \div 2
               n == ((p - 1) % 2) + 1
    <3>1. x \in 0 .. columns - 1 /\ n \in {1, 2}
      BY <2>4, <2>5, PixelAndEnd
    <3>2. trace[p].v = drawn[x][n]
      BY <2>1, <2>4, <2>5 DEF Vertex
    <3> HIDE DEF x, n
    <3>3. PICK i \in span(x) : drawn[x][n] = Sample(i)
      BY <2>2, <3>1
    <3>4. QED
      BY <2>2, <3>1, <3>2, <3>3
  <2>6. ASSUME NEW i \in first .. Len(samples) - 1
        PROVE  \E p, q \in DOMAIN trace :
                 /\ trace[p].x = PixelOf(i, first, count, columns)
                 /\ trace[q].x = PixelOf(i, first, count, columns)
                 /\ trace[p].v <= Sample(i) /\ Sample(i) <= trace[q].v
    <3> DEFINE x == PixelOf(i, first, count, columns)
    <3>1. x \in 0 .. columns - 1 /\ i \in span(x)
      BY <2>3, <2>6
    <3> HIDE DEF x
    <3>2. PICK n \in {1, 2}, k \in {1, 2} : drawn[x][n] <= Sample(i) /\ Sample(i) <= drawn[x][k]
      BY <2>2, <3>1
    <3>3. ASSUME NEW m \in {1, 2}
          PROVE  2 * x + m \in DOMAIN trace /\ trace[2 * x + m] = Vertex(x, drawn[x][m])
      <4> DEFINE p == 2 * x + m
      <4>1. p \in 1 .. 2 * columns /\ (p - 1) \div 2 = x /\ ((p - 1) % 2) + 1 = m
        BY <3>1, <3>3, PixelAndEnd
      <4> HIDE DEF p
      <4>2. trace[p] = Vertex(x, drawn[x][m])
        BY <2>1, <4>1
      <4>3. QED
        BY <2>4, <4>1, <4>2 DEF p
    <3>4. trace[2 * x + n].x = x /\ trace[2 * x + n].v = drawn[x][n]
      BY <3>3 DEF Vertex
    <3>5. trace[2 * x + k].x = x /\ trace[2 * x + k].v = drawn[x][k]
      BY <3>3 DEF Vertex
    <3>6. 2 * x + n \in DOMAIN trace /\ 2 * x + k \in DOMAIN trace
      BY <3>3
    <3>7. QED
      BY <3>2, <3>4, <3>5, <3>6 DEF x
  <2>7. QED
    BY <2>5, <2>6 DEF ViewportIsSampled, PixelOf, trace
<1>4. QED
  BY <1>1, <1>2, <1>3

\* decimate(): nothing is drawn that was not sampled, and every sample lies between
\* two vertices in its own column, for records, viewports and screens of any size.
THEOREM ScreenDrawsSamples == Spec => []DrawnIsSampled
<1>1. IsRecord => DrawnIsSampled
  <2> SUFFICES ASSUME IsRecord, NEW first \in 0 .. Len(samples) - 1, NEW columns \in 1 .. MaxColumns
               PROVE  ViewportIsSampled(first, columns, Len(samples) - first)
    BY DEF DrawnIsSampled, ViewportIsSampled
  <2>1. columns \in Nat \ {0}
    BY MeasurementAssumption
  <2>2. Len(samples) - first \in Nat \ {0}
    BY DEF IsRecord
  <2>3. QED
    BY <2>1, <2>2, TraceIsSampled
<1>2. DetectorInv => TypeOK
  BY DEF DetectorInv
<1>3. QED
  BY <1>1, <1>2, RecordKept, DetectorCorrect, PTL

\* b lies in the direction of a.
Along(up, a, b) == IF up THEN a <= b ELSE a >= b

\* A record that never turns back between two samples does not turn back at all.
LEMMA MonotoneAlong ==
  ASSUME NEW s \in Seq(Int), NEW up \in BOOLEAN, Monotone(s, up)
  PROVE  \A i, k \in 1 .. Len(s) : i <= k => Along(up, s[i], s[k])
<1> SUFFICES ASSUME NEW i \in 1 .. Len(s)
             PROVE  \A n \in Nat : i + n <= Len(s) => Along(up, s[i], s[i + n])
  <2>1. ASSUME NEW i \in 1 .. Len(s), NEW k \in 1 .. Len(s), i <= k,
               \A n \in Nat : i + n <= Len(s) => Along(up, s[i], s[i + n])
        PROVE  Along(up, s[i], s[k])
    <3>1. k - i \in Nat /\ i + (k - i) = k /\ i + (k - i) <= Len(s)
      BY <2>1
    <3>2. QED
      BY <2>1, <3>1
  <2>2. QED
    BY <2>1
<1> DEFINE T == {n \in Nat : i + n <= Len(s) => Along(up, s[i], s[i + n])}
<1>1. Len(s) \in Nat /\ \A k \in 1 .. Len(s) : s[k] \in Int
  BY LenProperties, ElementOfSeq
<1>2. 0 \in T
  <2>1. s[i + 0] = s[i] /\ s[i] \in Int
    BY <1>1
  <2>2. QED
    BY <2>1 DEF Along
<1>3. ASSUME NEW n \in Nat, n \in T PROVE n + 1 \in T
  <2> SUFFICES ASSUME i + (n + 1) <= Len(s) PROVE Along(up, s[i], s[i + (n + 1)])
    BY DEF T
  <2>1. Along(up, s[i], s[i + n])
    BY <1>1, <1>3
  <2>2. i + (n + 1) \in 2 .. Len(s) /\ (i + (n + 1)) - 1 = i + n /\ i + n \in 1 .. Len(s)
    BY <1>1
  <2>3. Along(up, s[i + n], s[i + (n + 1)])
    BY <2>2 DEF Monotone, Along
  <2>4. s[i] \in Int /\ s[i + n] \in Int /\ s[i + (n + 1)] \in Int
    BY <1>1, <2>2
  <2>5. QED
    BY <2>1, <2>3, <2>4 DEF Along
<1>4. \A n \in Nat : n \in T
  <2> HIDE DEF T
  <2>1. \A n \in Nat : n \in T => n + 1 \in T
    BY <1>3
  <2>2. QED
    BY <1>2, <2>1, AllNaturals
<1>5. QED
  BY <1>4

\* The signal only rises, or only falls, in a viewport that is drawn to its end.
OneWay(first, up) == Monotone(SubSeq(samples, first + 1, Len(samples)), up)

\* So does any later sample of it, against any earlier one.
LEMMA OneWayAlong ==
  ASSUME IsRecord, NEW first \in 0 .. Len(samples) - 1, NEW up \in BOOLEAN, OneWay(first, up)
  PROVE  \A i, k \in first .. Len(samples) - 1 : i <= k => Along(up, samples[i + 1], samples[k + 1])
<1> DEFINE s == SubSeq(samples, first + 1, Len(samples))
<1>1. Len(samples) \in Nat /\ samples \in Seq(Int) /\ first \in Nat /\ first < Len(samples)
  BY DEF IsRecord
<1>2. /\ s \in Seq(Int) /\ Len(s) = Len(samples) - first
      /\ \A i \in 1 .. Len(samples) - first : s[i] = samples[first + i]
  <2>1. first + 1 \in 1 .. Len(samples) + 1 /\ Len(samples) \in first .. Len(samples)
        /\ \A i \in 1 .. Len(samples) - first : (first + 1) + i - 1 = first + i
        /\ Len(samples) - (first + 1) + 1 = Len(samples) - first
    BY <1>1
  <2>2. first + 1 <= Len(samples) /\ first + 1 \in Int /\ Len(samples) \in Int
    BY <1>1
  <2>3. \A i \in first + 1 .. Len(samples) : samples[i] \in Int
    BY <1>1
  <2>4. /\ s \in Seq(Int) /\ Len(s) = Len(samples) - (first + 1) + 1
        /\ \A i \in 1 .. Len(samples) - (first + 1) + 1 : s[i] = samples[(first + 1) + i - 1]
    <3>1. s \in Seq(Int)
      BY <2>2, <2>3, SubSeqProperties
    <3>2. Len(s) = Len(samples) - (first + 1) + 1
      BY <2>2, <2>3, SubSeqProperties
    <3>3. \A i \in 1 .. Len(samples) - (first + 1) + 1 : s[i] = samples[(first + 1) + i - 1]
      BY <2>2, <2>3, SubSeqProperties
    <3>4. QED
      BY <3>1, <3>2, <3>3
  <2> HIDE DEF s
  <2>5. ASSUME NEW i \in 1 .. Len(samples) - first PROVE s[i] = samples[first + i]
    <3>1. i \in 1 .. Len(samples) - (first + 1) + 1
      BY <2>1
    <3>2. s[i] = samples[(first + 1) + i - 1]
      BY <2>4, <3>1
    <3>3. QED
      BY <2>1, <3>2
  <2>6. s \in Seq(Int) /\ Len(s) = Len(samples) - first
    BY <2>1, <2>4
  <2>7. QED
    BY <2>5, <2>6
<1> HIDE DEF s
<1>3. \A i, k \in 1 .. Len(s) : i <= k => Along(up, s[i], s[k])
  <2>1. Monotone(s, up)
    BY DEF OneWay, s
  <2>2. QED
    BY <1>2, <2>1, MonotoneAlong
<1>4. ASSUME NEW i \in first .. Len(samples) - 1, NEW k \in first .. Len(samples) - 1, i <= k
      PROVE  Along(up, samples[i + 1], samples[k + 1])
  <2> DEFINE a == i - first + 1
             b == k - first + 1
  <2>1. a \in 1 .. Len(s) /\ b \in 1 .. Len(s) /\ a <= b /\ first + a = i + 1 /\ first + b = k + 1
    BY <1>1, <1>2, <1>4
  <2> HIDE DEF a, b
  <2>2. s[a] = samples[i + 1] /\ s[b] = samples[k + 1]
    BY <1>2, <2>1
  <2>3. QED
    BY <1>3, <2>1, <2>2
<1>5. QED
  BY <1>4

\* What is drawn of one column lies ahead of what is drawn of another.
Ahead(up, e, d) == Along(up, e.top, d.top) /\ Along(up, e.top, d.bottom)
                   /\ Along(up, e.bottom, d.top) /\ Along(up, e.bottom, d.bottom)

\* What is drawn of a column is drawn between samples number lo to hi.
DrawnFrom(e, first, lo, hi) ==
  /\ lo \in Nat /\ hi \in Nat /\ first <= lo /\ lo <= hi /\ hi < Len(samples)
  /\ \E i \in lo .. hi : e.top = samples[i + 1]
  /\ \E i \in lo .. hi : e.bottom = samples[i + 1]
  /\ e.top \in Int /\ e.bottom \in Int /\ e.bottom <= e.top

\* They are the samples of its span.
LEMMA ColumnExtremes ==
  ASSUME IsRecord, NEW first \in Nat, NEW columns \in Nat \ {0}, NEW count \in Nat,
         first + count = Len(samples), count > columns, NEW x \in 0 .. columns - 1
  PROVE  DrawnFrom(Column(samples, first, count, columns, x), first,
                   first + Begins(count, columns, x), first + Begins(count, columns, x + 1) - 1)
<1> DEFINE e == Column(samples, first, count, columns, x)
           a == Begins(count, columns, x)
           b == Begins(count, columns, x + 1)
           lo == first + a
           hi == first + b - 1
<1>1. Len(samples) \in Nat /\ samples \in Seq(Int)
  BY DEF IsRecord
<1>2. a \in Nat /\ b \in Nat /\ a < b /\ b <= count
      /\ Span(first, count, columns, x) = first + a .. first + b - 1
  BY SpanIs
<1>3. e = Extremes(samples, Span(first, count, columns, x))
  BY DEF Column
<1> HIDE DEF a, b, e
<1>4. lo \in Nat /\ hi \in Nat /\ lo <= hi /\ hi < Len(samples) /\ first <= lo
  BY <1>1, <1>2
<1>5. e = Extremes(samples, lo .. hi)
  BY <1>2, <1>3
<1> HIDE DEF lo, hi
<1>6. /\ \E i \in lo .. hi : e.top = samples[i + 1]
      /\ \E i \in lo .. hi : e.bottom = samples[i + 1]
      /\ \A i \in lo .. hi : e.bottom <= samples[i + 1] /\ samples[i + 1] <= e.top
  <2>1. /\ \E i \in lo .. hi : Extremes(samples, lo .. hi).top = samples[i + 1]
        /\ \E i \in lo .. hi : Extremes(samples, lo .. hi).bottom = samples[i + 1]
        /\ \A i \in lo .. hi : /\ Extremes(samples, lo .. hi).bottom <= samples[i + 1]
                               /\ samples[i + 1] <= Extremes(samples, lo .. hi).top
    BY <1>1, <1>4, ExtremesBound
  <2>2. QED
    BY <1>5, <2>1
<1>7. PICK j \in lo .. hi : e.top = samples[j + 1]
  BY <1>6
<1>8. \A i \in lo .. hi : samples[i + 1] \in Int
  <2>1. \A i \in lo .. hi : i + 1 \in 1 .. Len(samples)
    BY <1>1, <1>4
  <2>2. QED
    BY <1>1, <2>1
<1>9. e.top \in Int /\ e.bottom \in Int /\ e.bottom <= e.top
  BY <1>6, <1>7, <1>8
<1>10. DrawnFrom(e, first, lo, hi)
  BY <1>4, <1>6, <1>9 DEF DrawnFrom
<1>11. QED
  BY <1>10 DEF lo, hi, a, b, e

\* The next column lies ahead.
LEMMA NextIsAhead ==
  ASSUME IsRecord, NEW first \in Nat, NEW columns \in Nat \ {0}, NEW count \in Nat,
         first + count = Len(samples), count > columns,
         NEW up \in BOOLEAN, OneWay(first, up), NEW x \in 0 .. columns - 2
  PROVE  Ahead(up, Column(samples, first, count, columns, x),
                   Column(samples, first, count, columns, x + 1))
<1> DEFINE e == Column(samples, first, count, columns, x)
           d == Column(samples, first, count, columns, x + 1)
           lo == first + Begins(count, columns, x)
           mid == first + Begins(count, columns, x + 1)
           hi == first + Begins(count, columns, (x + 1) + 1) - 1
<1>1. x \in 0 .. columns - 1 /\ x + 1 \in 0 .. columns - 1
  OBVIOUS
<1>2. DrawnFrom(e, first, lo, mid - 1)
  <2>1. DrawnFrom(e, first, lo, first + Begins(count, columns, x + 1) - 1)
    BY <1>1, ColumnExtremes
  <2>2. Begins(count, columns, x + 1) \in Nat
    BY <1>1, SpanIs
  <2>3. QED
    BY <2>1, <2>2
<1>3. DrawnFrom(d, first, mid, hi)
  BY <1>1, ColumnExtremes
<1> HIDE DEF e, d, lo, mid, hi
<1>4. Len(samples) \in Nat
  BY DEF IsRecord
<1>5. /\ lo \in Nat /\ mid - 1 \in Nat /\ first <= lo /\ lo <= mid - 1 /\ mid - 1 < Len(samples)
      /\ \E i \in lo .. mid - 1 : e.top = samples[i + 1]
      /\ \E i \in lo .. mid - 1 : e.bottom = samples[i + 1]
  BY <1>2 DEF DrawnFrom
<1>6. /\ mid \in Nat /\ hi \in Nat /\ first <= mid /\ mid <= hi /\ hi < Len(samples)
      /\ \E i \in mid .. hi : d.top = samples[i + 1]
      /\ \E i \in mid .. hi : d.bottom = samples[i + 1]
  BY <1>3 DEF DrawnFrom
<1>7. first \in 0 .. Len(samples) - 1
  BY <1>4, <1>6
<1>8. \A i, k \in first .. Len(samples) - 1 : i <= k => Along(up, samples[i + 1], samples[k + 1])
  BY <1>7, OneWayAlong
<1>9. ASSUME NEW i \in lo .. mid - 1, NEW k \in mid .. hi
      PROVE  Along(up, samples[i + 1], samples[k + 1])
  <2>1. i \in first .. Len(samples) - 1 /\ k \in first .. Len(samples) - 1 /\ i <= k
    BY <1>4, <1>5, <1>6
  <2>2. QED
    BY <1>8, <2>1
<1>10. Ahead(up, e, d)
  BY <1>5, <1>6, <1>9 DEF Ahead
<1>11. QED
  BY <1>10 DEF e, d

\* Which way a column is drawn that lies ahead of where the path is.
LEMMA EntersNear ==
  ASSUME NEW e, NEW t \in Int, NEW b \in Int, t = e.top, b = e.bottom, b <= t, NEW exit \in Int,
         NEW up \in BOOLEAN, Along(up, exit, t), Along(up, exit, b)
  PROVE  /\ Along(up, Order(e, exit)[1], Order(e, exit)[2])
         /\ Along(up, exit, Order(e, exit)[1])
<1>1. Order(e, exit) = IF Distance(t, exit) <= Distance(b, exit) THEN <<t, b>> ELSE <<b, t>>
  BY DEF Order
<1> DEFINE o == Order(e, exit)
<1>2. CASE up
  <2>1. exit <= b /\ exit <= t
    BY <1>2 DEF Along
  <2>2. Distance(t, exit) <= Distance(b, exit) => t = b
    BY <2>1 DEF Distance
  <2>3. o = <<b, t>>
    BY <1>1, <2>2
  <2> HIDE DEF o
  <2>4. o[1] = b /\ o[2] = t
    BY <2>3
  <2>5. Along(up, o[1], o[2]) /\ Along(up, exit, o[1])
    BY <1>2, <2>1, <2>4 DEF Along
  <2>6. QED
    BY <2>5 DEF o
<1>3. CASE ~up
  <2>1. exit >= t
    BY <1>3 DEF Along
  <2>2. Distance(t, exit) <= Distance(b, exit)
    BY <2>1 DEF Distance
  <2>3. o = <<t, b>>
    BY <1>1, <2>2
  <2> HIDE DEF o
  <2>4. o[1] = t /\ o[2] = b
    BY <2>3
  <2>5. Along(up, o[1], o[2]) /\ Along(up, exit, o[1])
    BY <1>3, <2>1, <2>4 DEF Along
  <2>6. QED
    BY <2>5 DEF o
<1>4. QED
  BY <1>2, <1>3

\* The path through the columns of such a record: through every column but the first it goes
\* ahead, and on from each column to the next.
LEMMA PathGoesOn ==
  ASSUME IsRecord, NEW first \in Nat, NEW columns \in Nat \ {0}, NEW count \in Nat,
         first + count = Len(samples), count > columns,
         NEW up \in BOOLEAN, OneWay(first, up), NEW x \in 0 .. columns - 2
  PROVE  LET drawn == Envelope(samples, first, count, columns)
         IN  Along(up, drawn[x][2], drawn[x + 1][1]) /\ Along(up, drawn[x + 1][1], drawn[x + 1][2])
<1> DEFINE drawn == Envelope(samples, first, count, columns)
           e == Column(samples, first, count, columns, x)
           d == Column(samples, first, count, columns, x + 1)
           exit == drawn[x][2]
<1>1. x \in 0 .. columns - 1 /\ x + 1 \in 0 .. columns - 1
  OBVIOUS
<1>2. Ahead(up, e, d)
  BY NextIsAhead
<1>3. d.top \in Int /\ d.bottom \in Int /\ d.bottom <= d.top
  <2>1. DrawnFrom(d, first, first + Begins(count, columns, x + 1),
                  first + Begins(count, columns, (x + 1) + 1) - 1)
    BY <1>1, ColumnExtremes
  <2>2. QED
    BY <2>1 DEF DrawnFrom
<1>4. e.top \in Int /\ e.bottom \in Int
  <2>1. DrawnFrom(e, first, first + Begins(count, columns, x), first + Begins(count, columns, x + 1) - 1)
    BY <1>1, ColumnExtremes
  <2>2. QED
    BY <2>1 DEF DrawnFrom
<1>5. drawn[x] \in Pair(e)
  BY <1>1, EnvelopeIs
<1>6. drawn[x + 1] = Order(d, exit)
  BY EnvelopeStep
<1> HIDE DEF drawn, e, d
<1>7. exit = e.top \/ exit = e.bottom
  BY <1>5 DEF Pair
<1> HIDE DEF exit
<1>8. exit \in Int /\ Along(up, exit, d.top) /\ Along(up, exit, d.bottom)
  BY <1>2, <1>4, <1>7 DEF Ahead
<1> DEFINE t == d.top
           b == d.bottom
<1>9. t \in Int /\ b \in Int /\ t = d.top /\ b = d.bottom /\ b <= t
      /\ Along(up, exit, t) /\ Along(up, exit, b)
  BY <1>3, <1>8
<1> HIDE DEF t, b
<1>10. /\ Along(up, Order(d, exit)[1], Order(d, exit)[2])
       /\ Along(up, exit, Order(d, exit)[1])
  BY <1>8, <1>9, EntersNear
<1>11. Along(up, exit, drawn[x + 1][1]) /\ Along(up, drawn[x + 1][1], drawn[x + 1][2])
  BY <1>6, <1>10
<1>12. QED
  BY <1>11 DEF exit, drawn

\* A path of which every leg but the first goes one way.
LEMMA LegsAlong ==
  ASSUME NEW trace, NEW n \in Nat \ {0}, DOMAIN trace = 1 .. n, Len(trace) = n, NEW up \in BOOLEAN,
         \A p \in 3 .. n : Along(up, trace[p - 1].v, trace[p].v)
  PROVE  Monotone([i \in 1 .. Len(trace) - 1 |-> trace[i + 1].v], up)
<1> DEFINE legs == [i \in 1 .. Len(trace) - 1 |-> trace[i + 1].v]
<1>1. Len(legs) = n - 1 /\ \A i \in 1 .. n - 1 : legs[i] = trace[i + 1].v
  <2>1. n - 1 \in Nat /\ legs = [i \in 1 .. n - 1 |-> trace[i + 1].v]
    OBVIOUS
  <2> HIDE DEF legs
  <2>2. QED
    BY <2>1
<1> HIDE DEF legs
<1>2. ASSUME NEW i \in 2 .. Len(legs) PROVE Along(up, legs[i - 1], legs[i])
  <2>1. i + 1 \in 3 .. n /\ (i + 1) - 1 = i /\ i - 1 \in 1 .. n - 1 /\ i \in 1 .. n - 1 /\ (i - 1) + 1 = i
    BY <1>1
  <2>2. Along(up, trace[(i + 1) - 1].v, trace[i + 1].v)
    BY <2>1
  <2>3. legs[i - 1] = trace[i].v /\ legs[i] = trace[i + 1].v
    BY <1>1, <2>1
  <2>4. QED
    BY <2>1, <2>2, <2>3
<1>3. Monotone(legs, up)
  BY <1>2 DEF Monotone, Along
<1>4. QED
  BY <1>3 DEF legs

\* decimate(), of a viewport in which the signal only rises, or only falls.
LEMMA TraceGoesOn ==
  ASSUME IsRecord, NEW first \in 0 .. Len(samples) - 1, NEW columns \in Nat \ {0},
         NEW up \in BOOLEAN, OneWay(first, up)
  PROVE  Monotone([i \in 1 .. Len(Trace(first, columns)) - 1 |-> Trace(first, columns)[i + 1].v], up)
<1> DEFINE trace == Trace(first, columns)
           count == Len(samples) - first
<1>1. Len(samples) \in Nat /\ first \in Nat /\ count \in Nat \ {0} /\ first + count = Len(samples)
  BY DEF IsRecord
<1> HIDE DEF count
<1>2. CASE count <= columns
  <2>1. trace = [i \in 1 .. count |-> Vertex(i - 1, samples[first + i])]
    BY <1>1, <1>2, TraceIs DEF count
  <2> HIDE DEF trace
  <2>2. DOMAIN trace = 1 .. count /\ Len(trace) = count
    BY <1>1, <2>1
  <2>3. ASSUME NEW p \in 3 .. count PROVE Along(up, trace[p - 1].v, trace[p].v)
    <3>1. p - 1 \in 1 .. count /\ p \in 1 .. count
      BY <1>1
    <3>2. trace[p - 1].v = samples[first + (p - 1)] /\ trace[p].v = samples[first + p]
      BY <2>1, <3>1 DEF Vertex
    <3>3. /\ first + (p - 2) \in first .. Len(samples) - 1 /\ first + (p - 1) \in first .. Len(samples) - 1
          /\ first + (p - 2) <= first + (p - 1)
          /\ first + (p - 2) + 1 = first + (p - 1) /\ first + (p - 1) + 1 = first + p
      BY <1>1
    <3>4. Along(up, samples[first + (p - 2) + 1], samples[first + (p - 1) + 1])
      BY <3>3, OneWayAlong
    <3>5. QED
      BY <3>2, <3>3, <3>4
  <2>4. QED
    BY <1>1, <2>2, <2>3, LegsAlong DEF trace
<1>3. CASE count > columns
  <2> DEFINE drawn == Envelope(samples, first, count, columns)
  <2>1. trace = [i \in 1 .. 2 * columns |-> Vertex((i - 1) \div 2, drawn[(i - 1) \div 2][((i - 1) % 2) + 1])]
    <3> HIDE DEF trace
    <3>1. count > columns => Trace(first, columns) = Path(first, count, columns)
      BY TraceIs, Zenon DEF count
    <3>2. QED
      BY <1>3, <3>1, Zenon DEF trace, Path
  <2>2. \A x \in 0 .. columns - 2 :
          Along(up, drawn[x][2], drawn[x + 1][1]) /\ Along(up, drawn[x + 1][1], drawn[x + 1][2])
    BY <1>1, <1>3, PathGoesOn
  <2> HIDE DEF trace, drawn
  <2>3. DOMAIN trace = 1 .. 2 * columns /\ Len(trace) = 2 * columns /\ 2 * columns \in Nat \ {0}
    BY <2>1
  <2>4. \A p \in 1 .. 2 * columns : trace[p].v = drawn[(p - 1) \div 2][((p - 1) % 2) + 1]
    BY <2>1 DEF Vertex
  <2>5. ASSUME NEW p \in 3 .. 2 * columns PROVE Along(up, trace[p - 1].v, trace[p].v)
    <3>1. p - 1 \in 1 .. 2 * columns /\ p \in 1 .. 2 * columns
      OBVIOUS
    <3>2. \E x \in 0 .. columns - 2 : p = 2 * x + 3 \/ p = 2 * x + 4
      <4>1. (p - 3) \div 2 \in 0 .. columns - 2
        OBVIOUS
      <4>2. p = 2 * ((p - 3) \div 2) + 3 \/ p = 2 * ((p - 3) \div 2) + 4
        OBVIOUS
      <4>3. QED
        BY <4>1, <4>2
    <3>3. PICK x \in 0 .. columns - 2 : p = 2 * x + 3 \/ p = 2 * x + 4
      BY <3>2
    <3>4. CASE p = 2 * x + 3
      <4>1. (p - 1) \div 2 = x + 1 /\ ((p - 1) % 2) + 1 = 1
        BY <3>4
      <4>2. ((p - 1) - 1) \div 2 = x /\ (((p - 1) - 1) % 2) + 1 = 2
        BY <3>4
      <4>3. trace[p].v = drawn[x + 1][1]
        BY <2>4, <3>1, <4>1
      <4>4. trace[p - 1].v = drawn[x][2]
        BY <2>4, <3>1, <4>2
      <4>5. QED
        BY <2>2, <4>3, <4>4
    <3>5. CASE p = 2 * x + 4
      <4>1. (p - 1) \div 2 = x + 1 /\ ((p - 1) % 2) + 1 = 2
        BY <3>5
      <4>2. ((p - 1) - 1) \div 2 = x + 1 /\ (((p - 1) - 1) % 2) + 1 = 1
        BY <3>5
      <4>3. trace[p].v = drawn[x + 1][2]
        BY <2>4, <3>1, <4>1
      <4>4. trace[p - 1].v = drawn[x + 1][1]
        BY <2>4, <3>1, <4>2
      <4>5. QED
        BY <2>2, <4>3, <4>4
    <3>6. QED
      BY <3>3, <3>4, <3>5
  <2>6. QED
    BY <2>3, <2>5, LegsAlong DEF trace
<1>4. QED
  BY <1>1, <1>2, <1>3

\* "No backtracking" (src/src/measure/JTraceDecimator.cpp:104): a signal that only rises, or only
\* falls, is drawn by a path that does, from the end of its first column on; for records,
\* viewports and screens of any size.
THEOREM ScreenNoBacktracking == Spec => []NoBacktracking
<1>1. IsRecord => NoBacktracking
  <2> SUFFICES ASSUME IsRecord, NEW first \in 0 .. Len(samples) - 1, NEW columns \in 1 .. MaxColumns,
                      NEW up \in BOOLEAN, OneWay(first, up)
               PROVE  Monotone([i \in 1 .. Len(Trace(first, columns)) - 1 |->
                                  Trace(first, columns)[i + 1].v], up)
    BY DEF NoBacktracking, OneWay
  <2>1. columns \in Nat \ {0}
    BY MeasurementAssumption
  <2>2. QED
    BY <2>1, TraceGoesOn
<1>2. DetectorInv => TypeOK
  BY DEF DetectorInv
<1>3. QED
  BY <1>1, <1>2, RecordKept, DetectorCorrect, PTL

-----------------------------------------------------------------------------
\* What the generator remembers, and the panel's controls and readouts.
Generators == [pattern : Patterns, requested : 1 .. MaxEncodable, actual : Int, output : BOOLEAN]
Panels == [output : BOOLEAN, speed : Int, top : Int, pulses : Int, lines : SUBSET Outputs,
           real : Int, ceiling : Int]

Remembered == /\ held \in Generators /\ file \in Patterns /\ failures \in Nat
              /\ held.actual = Achievable(held.requested, held.pattern)

\* The panel is the one that was built for the device, and shows what it holds.
Shows == /\ panel = NoPanel \/ panel \in Panels
         /\ HasGenerator => panel \in Panels /\ panel.real = held.actual

GeneratorInv == Remembered /\ Shows /\ DrawingIsHeld /\ DeviceFollows

-----------------------------------------------------------------------------
\* A pattern has as many steps as the device has room for, and at least one.
LEMMA PatternLength == \A p \in Patterns : Len(p) \in 1 .. MaxLength
  BY GeneratorAssumption DEF Patterns

\* The ceiling of a pattern and the speed the device makes of a request are
\* numbers.
LEMMA SpeedsAreNumbers ==
  ASSUME NEW p \in Patterns
  PROVE  /\ MaxRpmFor(Len(p)) \in Int
         /\ \A rpm \in Int : Achievable(rpm, p) \in Int
<1> DEFINE steps == Len(p)
<1>1. steps \in Nat \ {0} /\ ClockTicks \in Nat /\ MinPulse \in Nat \ {0} /\ MaxEncodable \in Nat
  BY PatternLength, GeneratorAssumption
<1> HIDE DEF steps
<1>2. MaxRpmFor(steps) \in Int
  <2>1. steps * MinPulse \in Nat \ {0}
    BY <1>1
  <2>2. QED
    BY <1>1, <2>1 DEF MaxRpmFor
<1>3. ASSUME NEW rpm \in Int PROVE Achievable(rpm, p) \in Int
  <2>1. CASE rpm < 1 \/ rpm > MaxRpmFor(steps)
    BY <2>1 DEF Achievable, steps
  <2>2. CASE ~(rpm < 1 \/ rpm > MaxRpmFor(steps))
    <3>1. rpm \in Nat \ {0}
      BY <1>2, <2>2
    <3>2. steps * rpm \in Nat \ {0}
      BY <1>1, <3>1
    <3> DEFINE pulse == PulseLengthFor(rpm, steps)
    <3>3. pulse \in Nat
      BY <1>1, <3>1, <3>2 DEF PulseLengthFor
    <3> HIDE DEF pulse
    <3>4. RpmForPulseLength(pulse, steps) \in Int
      <4>1. CASE pulse = 0
        BY <4>1 DEF RpmForPulseLength
      <4>2. CASE pulse # 0
        <5>1. 2 * steps * pulse \in Nat \ {0} /\ 2 * ClockTicks + steps * pulse \in Nat
          BY <1>1, <3>3, <4>2
        <5>2. QED
          BY <5>1, <4>2 DEF RpmForPulseLength
      <4>3. QED
        BY <4>1, <4>2
    <3>5. QED
      BY <2>2, <3>4 DEF Achievable, steps, pulse
  <2>3. QED
    BY <2>1, <2>2
<1>4. QED
  BY <1>2, <1>3 DEF steps

\* setPattern(): the pattern changes, and with it the speed that is reached.
LEMMA WithPatternIs ==
  ASSUME NEW g \in Generators, NEW p \in Patterns
  PROVE  /\ WithPattern(g, p) \in Generators
         /\ WithPattern(g, p).pattern = p
         /\ WithPattern(g, p).requested = g.requested
         /\ WithPattern(g, p).output = g.output
         /\ WithPattern(g, p).actual = Achievable(g.requested, p)
<1>1. g.requested \in Int
  BY GeneratorAssumption DEF Generators
<1>2. Achievable(g.requested, p) \in Int
  BY <1>1, SpeedsAreNumbers
<1>3. QED
  BY <1>2 DEF WithPattern, Generators

\* flush(): only a transfer without a failure leaves the count of them at 0.
LEMMA FlushDoes ==
  ASSUME NEW g \in Generators, NEW ok \in SUBSET Parts, failures \in Nat, Flush(g, ok)
  PROVE  /\ failures' \in Nat
         /\ failures' = 0 =>
              /\ failures = 0
              /\ device'.output = g.output
              /\ device'.pattern = g.pattern
              /\ device'.pulse = PulseLengthFor(g.requested, Len(g.pattern))
<1>1. CASE ok = Parts
  <2>1. "pattern" \in ok /\ "speed" \in ok /\ "output" \in ok
    BY <1>1 DEF Parts
  <2>2. device' \in [pattern : {g.pattern}, pulse : {PulseLengthFor(g.requested, Len(g.pattern))},
                     output : {g.output}]
    BY <2>1 DEF Flush
  <2>3. QED
    BY <1>1, <2>2 DEF Flush
<1>2. CASE ok # Parts
  BY <1>2 DEF Flush
<1>3. QED
  BY <1>1, <1>2

\* _generatorChanged(): with nothing owed and no failure, the device has it.
LEMMA ChangedDoes ==
  ASSUME NEW g \in Generators, failures \in Nat, Changed(g)
  PROVE  /\ failures' \in Nat
         /\ ~owed' /\ failures' = 0 =>
              /\ device'.output = g.output
              /\ device'.pulse = PulseLengthFor(g.requested, Len(device'.pattern))
<1>1. CASE running
  BY <1>1 DEF Changed
<1>2. CASE ~running
  <2>1. PICK ok \in SUBSET Parts : Flush(g, ok)
    BY <1>2 DEF Changed
  <2>2. QED
    BY <2>1, FlushDoes
<1>3. QED
  BY <1>1, <1>2

\* syncFrom(): the panel shows the speed the generator reached.
LEMMA SyncedIs ==
  ASSUME NEW p \in Panels, NEW g \in Generators
  PROVE  /\ Synced(p, g) \in Panels
         /\ Synced(p, g).real = g.actual
         /\ Synced(p, g).lines = p.lines
         /\ Synced(p, g).pulses = p.pulses
<1>1. InRange(g.requested, p.top) \in Int
  BY GeneratorAssumption DEF InRange, Generators, Panels
<1>2. QED
  BY <1>1 DEF Synced, Generators, Panels

\* _showSpeeds(): so does the panel when only the speeds are shown again.
LEMMA WithSpeedsIs ==
  ASSUME NEW p \in Panels, NEW g \in Generators
  PROVE  /\ WithSpeeds(p, g) \in Panels
         /\ HasGenerator => WithSpeeds(p, g).real = g.actual
         /\ WithSpeeds(p, g).lines = p.lines
         /\ WithSpeeds(p, g).pulses = p.pulses
<1>1. MaxRpmFor(Len(g.pattern)) \in Int /\ g.actual \in Int
  BY SpeedsAreNumbers DEF Generators
<1>2. Dash \in Int
  BY DEF Dash
<1>3. CASE HasGenerator
  <2>1. WithSpeeds(p, g) = [p EXCEPT !.real = g.actual, !.ceiling = MaxRpmFor(Len(g.pattern))]
    BY <1>3 DEF WithSpeeds
  <2>2. QED
    BY <1>1, <2>1 DEF Panels
<1>4. CASE ~HasGenerator
  <2>1. WithSpeeds(p, g) = [p EXCEPT !.real = Dash]
    BY <1>4 DEF WithSpeeds
  <2>2. QED
    BY <1>2, <1>4, <2>1 DEF Panels
<1>5. QED
  BY <1>3, <1>4

\* _pushPattern(): so does the panel when a new pattern is pushed.
LEMMA PushedIs ==
  ASSUME NEW p \in Panels, NEW g \in Generators
  PROVE  /\ Pushed(p, g) \in Panels
         /\ Pushed(p, g).real = g.actual
         /\ Pushed(p, g).lines = p.lines
         /\ Pushed(p, g).pulses = p.pulses
<1> DEFINE ceiling == MaxRpmFor(Len(g.pattern))
<1>1. ceiling \in Int
  BY SpeedsAreNumbers DEF Generators
<1> HIDE DEF ceiling
<1>2. InRange(InRange(g.requested, p.top), ceiling) \in Int
  BY <1>1, GeneratorAssumption DEF InRange, Generators, Panels
<1>3. Pushed(p, g) = [Synced(p, g) EXCEPT !.top = ceiling, !.ceiling = ceiling,
                        !.speed = InRange(InRange(g.requested, p.top), ceiling)]
  BY DEF Pushed, ceiling
<1> DEFINE q == Synced(p, g)
<1>4. q \in Panels /\ q.real = g.actual /\ q.lines = p.lines /\ q.pulses = p.pulses
  BY SyncedIs
<1> HIDE DEF q
<1>5. Pushed(p, g) = [q EXCEPT !.top = ceiling, !.ceiling = ceiling,
                        !.speed = InRange(InRange(g.requested, p.top), ceiling)]
  BY <1>3 DEF q
<1>6. QED
  BY <1>1, <1>2, <1>4, <1>5 DEF Panels

\* A new number of pulses makes a pattern of that length.
LEMMA AlternatingIsPattern ==
  ASSUME NEW n \in 1 .. MaxLength, NEW lines \in SUBSET Outputs
  PROVE  Alternating(n, lines) \in Patterns
  BY DEF Alternating, Patterns

\* A pressed cell leaves a pattern of the same length.
LEMMA ToggledIsPattern ==
  ASSUME NEW p \in Patterns, NEW i \in DOMAIN p, NEW o \in Outputs
  PROVE  [p EXCEPT ![i] = Toggled(@, o)] \in Patterns
  BY DEF Toggled, Patterns

-----------------------------------------------------------------------------
\* No device is connected at first, and nothing is owed.
LEMMA GeneratorInvInit == GeneratorInit => GeneratorInv
<1> SUFFICES ASSUME GeneratorInit PROVE GeneratorInv
  OBVIOUS
<1>1. DefaultPattern \in Patterns /\ DefaultRpm \in 1 .. MaxEncodable
  BY GeneratorAssumption
<1>2. Achievable(DefaultRpm, DefaultPattern) \in Int
  BY <1>1, SpeedsAreNumbers
<1>3. Remembered
  BY <1>1, <1>2 DEF GeneratorInit, Remembered, Generators, Fresh
<1>4. QED
  BY <1>3 DEF GeneratorInit, GeneratorInv, Shows, DrawingIsHeld, DeviceFollows, HasGenerator

\* A device with a generator is connected: what is shown is what is held.
LEMMA HeldAndShown ==
  ASSUME GeneratorInv, HasGenerator
  PROVE  /\ held \in Generators /\ held.actual = Achievable(held.requested, held.pattern)
         /\ panel \in Panels /\ panel.real = held.actual
         /\ editor = Drawn(held, panel)
         /\ file \in Patterns /\ failures \in Nat
  BY DEF GeneratorInv, Remembered, Shows, DrawingIsHeld

\* Every action keeps the invariant: the output switched on the panel,
LEMMA SetOutputKeeps == ASSUME GeneratorInv, NEW on \in BOOLEAN, SetOutput(on) PROVE GeneratorInv'
<1> DEFINE p == [panel EXCEPT !.output = on]
<1>0. p \in Panels /\ p.real = panel.real /\ p.lines = panel.lines /\ p.pulses = panel.pulses
  BY DEF SetOutput, GeneratorInv, Shows, Panels
<1> HIDE DEF p
<1>1. CASE HasGenerator
  <2> DEFINE g == [held EXCEPT !.output = on]
  <2>1. g \in Generators /\ g.pattern = held.pattern /\ g.requested = held.requested
        /\ g.actual = held.actual
    BY <1>1, HeldAndShown DEF Generators
  <2>2. held' = g /\ Changed(held') /\ ConfigChanged(p, held') /\ UNCHANGED <<instrument, running, sending, file>>
    BY <1>1 DEF SetOutput, p
  <2> HIDE DEF g
  <2>3. QED
    BY <1>0, <1>1, <2>1, <2>2, HeldAndShown, SyncedIs, ChangedDoes
       DEF ConfigChanged, GeneratorInv, Remembered, Shows, DrawingIsHeld, DeviceFollows, HasGenerator, Drawn
<1>2. CASE ~HasGenerator
  BY <1>0, <1>2 DEF SetOutput, p, GeneratorInv, Remembered, Shows, DrawingIsHeld, DeviceFollows, HasGenerator
<1>3. QED
  BY <1>1, <1>2

\* setRpm() with a speed that is accepted, from the panel and from the bus.
LEMMA WithRpmIs ==
  ASSUME GeneratorInv, NEW rpm \in Int, Accepted(rpm)
  PROVE  /\ WithRpm(rpm) \in Generators
         /\ WithRpm(rpm).pattern = held.pattern /\ WithRpm(rpm).output = held.output
         /\ WithRpm(rpm).requested = rpm /\ WithRpm(rpm).actual = Achievable(rpm, held.pattern)
<1>1. held \in Generators /\ held.pattern \in Patterns
  BY HeldAndShown DEF Accepted, Generators
<1>2. Achievable(rpm, held.pattern) \in Int /\ MaxRpmFor(Len(held.pattern)) \in Int
  BY <1>1, SpeedsAreNumbers
<1>3. MaxRpmFor(Len(held.pattern)) <= MaxEncodable
  <2>1. Len(held.pattern) * MinPulse \in Nat \ {0} /\ ClockTicks \in Nat /\ MaxEncodable \in Nat
    BY <1>1, PatternLength, GeneratorAssumption
  <2>2. QED
    BY <2>1 DEF MaxRpmFor
<1>4. rpm \in 1 .. MaxEncodable
  BY <1>2, <1>3, GeneratorAssumption DEF Accepted
<1>5. QED
  BY <1>1, <1>2, <1>4 DEF WithRpm, Generators

\* a speed asked for on the panel,
LEMMA SetSpeedKeeps ==
  ASSUME GeneratorInv, NEW rpm \in 1 .. MaxEncodable, SetSpeed(rpm) PROVE GeneratorInv'
<1> DEFINE p == [panel EXCEPT !.speed = rpm]
<1>0. p \in Panels /\ p.real = panel.real /\ p.lines = panel.lines /\ p.pulses = panel.pulses
  BY GeneratorAssumption DEF SetSpeed, GeneratorInv, Shows, Panels
<1> HIDE DEF p
<1>1. CASE Accepted(rpm)
  <2>1. HasGenerator /\ rpm \in Int
    BY <1>1, GeneratorAssumption DEF Accepted
  <2>2. /\ held' = WithRpm(rpm) /\ Changed(held') /\ UNCHANGED <<instrument, running, sending, file>>
        /\ panel' = WithSpeeds(Synced(p, held'), held') /\ editor' = Drawn(held', p)
    BY <1>1 DEF SetSpeed, p
  <2>3. /\ held' \in Generators /\ held'.pattern = held.pattern /\ held'.output = held.output
        /\ held'.requested = rpm /\ held'.actual = Achievable(rpm, held'.pattern)
    BY <1>1, <2>1, <2>2, WithRpmIs
  <2>4. /\ panel' \in Panels /\ panel'.real = held'.actual /\ panel'.lines = p.lines
    BY <1>0, <2>1, <2>2, <2>3, SyncedIs, WithSpeedsIs
  <2>5. QED
    BY <1>0, <2>1, <2>2, <2>3, <2>4, HeldAndShown, ChangedDoes
       DEF GeneratorInv, Remembered, Shows, DrawingIsHeld, DeviceFollows, HasGenerator, Drawn
<1>2. CASE ~Accepted(rpm)
  <2>1. /\ panel' = WithSpeeds(p, held)
        /\ UNCHANGED <<held, owed, device, failures, editor, instrument, running, sending, file>>
    BY <1>2 DEF SetSpeed, p
  <2>2. held \in Generators
    BY DEF GeneratorInv, Remembered
  <2>3. /\ panel' \in Panels /\ panel'.lines = panel.lines
        /\ HasGenerator => panel'.real = held.actual
    BY <1>0, <2>1, <2>2, WithSpeedsIs
  <2>4. QED
    BY <2>1, <2>3 DEF GeneratorInv, Remembered, Shows, DrawingIsHeld, DeviceFollows, HasGenerator, Drawn
<1>3. QED
  BY <1>1, <1>2

\* a speed asked for on the bus,
LEMMA BusSpeedKeeps ==
  ASSUME GeneratorInv, NEW rpm \in 1 .. MaxEncodable, BusSpeed(rpm) PROVE GeneratorInv'
<1>1. HasGenerator /\ rpm \in Int /\ Accepted(rpm)
  BY GeneratorAssumption DEF BusSpeed, Accepted
<1>2. /\ held' = WithRpm(rpm) /\ Changed(held') /\ ConfigChanged(panel, held')
      /\ UNCHANGED <<instrument, running, sending, file>>
  BY DEF BusSpeed
<1>3. /\ held' \in Generators /\ held'.pattern = held.pattern /\ held'.output = held.output
      /\ held'.requested = rpm /\ held'.actual = Achievable(rpm, held'.pattern)
  BY <1>1, <1>2, WithRpmIs
<1>4. QED
  BY <1>1, <1>2, <1>3, HeldAndShown, SyncedIs, ChangedDoes
     DEF ConfigChanged, GeneratorInv, Remembered, Shows, DrawingIsHeld, DeviceFollows, HasGenerator, Drawn

\* A new pattern reaches the generator, the panel and the drawing, and not the device.
LEMMA PatternKeeps ==
  ASSUME GeneratorInv, HasGenerator, NEW p \in Patterns,
         held' = WithPattern(held, p), editor' = Drawn(held', panel'),
         panel' \in Panels, panel'.real = held'.actual,
         UNCHANGED <<instrument, running, sending, owed, device, failures, file>>
  PROVE  GeneratorInv'
<1>1. /\ held' \in Generators /\ held'.pattern = p /\ held'.requested = held.requested
      /\ held'.output = held.output /\ held'.actual = Achievable(held.requested, p)
  BY HeldAndShown, WithPatternIs
<1>2. QED
  BY <1>1, HeldAndShown
     DEF GeneratorInv, Remembered, Shows, DrawingIsHeld, DeviceFollows, HasGenerator

\* a new number of pulses, which replaces the pattern,
LEMMA SetPulsesKeeps ==
  ASSUME GeneratorInv, NEW n \in 1 .. MaxLength, SetPulses(n)
  PROVE  GeneratorInv' /\ (HasGenerator => panel'.pulses # panel.pulses)
<1> DEFINE p == [panel EXCEPT !.pulses = n]
<1>0. /\ p \in Panels /\ p.real = panel.real /\ p.lines = panel.lines /\ p.pulses = n
      /\ n # panel.pulses
  BY GeneratorAssumption DEF SetPulses, GeneratorInv, Shows, Panels
<1> HIDE DEF p
<1>1. CASE HasGenerator
  <2> DEFINE q == Alternating(n, p.lines)
  <2>1. q \in Patterns
    BY <1>0, AlternatingIsPattern DEF Panels
  <2>2. /\ held' = WithPattern(held, q) /\ panel' = Pushed(p, held') /\ editor' = Drawn(held', p)
        /\ UNCHANGED <<instrument, running, sending, owed, device, failures, file>>
    BY <1>1 DEF SetPulses, p
  <2> HIDE DEF q
  <2>3. held' \in Generators
    BY <1>1, <2>1, <2>2, HeldAndShown, WithPatternIs
  <2>4. /\ panel' \in Panels /\ panel'.real = held'.actual /\ panel'.pulses = n
        /\ panel'.lines = p.lines
    BY <1>0, <2>2, <2>3, PushedIs
  <2>5. editor' = Drawn(held', panel')
    BY <2>2, <2>4 DEF Drawn
  <2>6. QED
    BY <1>0, <1>1, <2>1, <2>2, <2>4, <2>5, PatternKeeps
<1>2. CASE ~HasGenerator
  <2>1. /\ panel' = WithSpeeds(p, held)
        /\ UNCHANGED <<held, editor, instrument, running, sending, owed, device, failures, file>>
    BY <1>2 DEF SetPulses, p
  <2>2. held \in Generators
    BY DEF GeneratorInv, Remembered
  <2>3. panel' \in Panels
    BY <1>0, <2>1, <2>2, WithSpeedsIs
  <2>4. QED
    BY <1>2, <2>1, <2>3 DEF GeneratorInv, Remembered, Shows, DrawingIsHeld, DeviceFollows, HasGenerator
<1>3. QED
  BY <1>1, <1>2

\* a line shown or hidden, which edits nothing,
LEMMA SwitchLineKeeps == ASSUME GeneratorInv, NEW o \in Outputs, SwitchLine(o) PROVE GeneratorInv'
<1>1. panel \in Panels
  BY DEF SwitchLine, GeneratorInv, Shows
<1>2. Toggled(panel.lines, o) \in SUBSET Outputs
  BY <1>1 DEF Toggled, Panels
<1>3. panel' \in Panels /\ panel'.real = panel.real /\ panel'.lines = Toggled(panel.lines, o)
  BY <1>1, <1>2 DEF SwitchLine, Panels
<1>4. HasGenerator => editor' = Drawn(held', panel')
  BY <1>3 DEF SwitchLine, GeneratorInv, DrawingIsHeld, Drawn
<1>5. QED
  BY <1>3, <1>4 DEF SwitchLine, GeneratorInv, Remembered, Shows, DrawingIsHeld, DeviceFollows, HasGenerator

\* a press on a cell of the grid,
LEMMA PressCellKeeps ==
  ASSUME GeneratorInv, NEW i \in 1 .. MaxLength, NEW o \in Outputs, PressCell(i, o)
  PROVE  GeneratorInv' /\ (HasGenerator => OneCell(held.pattern, held'.pattern))
<1>1. CASE HasGenerator
  <2> DEFINE q == [held.pattern EXCEPT ![i] = Toggled(@, o)]
  <2>1. /\ held \in Generators /\ held.pattern \in Patterns /\ panel \in Panels
        /\ editor.pattern = held.pattern /\ editor.lanes = panel.lines
    BY <1>1, HeldAndShown DEF Drawn, Generators
  <2>2. i \in DOMAIN held.pattern /\ o \in editor.lanes
    BY <2>1 DEF PressCell
  <2>3. q \in Patterns
    BY <2>1, <2>2, ToggledIsPattern
  <2>4. /\ held' = WithPattern(held, q) /\ ConfigChanged(panel, held')
        /\ UNCHANGED <<instrument, running, sending, owed, device, failures, file>>
    BY <1>1, <2>1 DEF PressCell
  <2>5. OneCell(held.pattern, q)
    BY <2>2 DEF OneCell
  <2> HIDE DEF q
  <2>6. held' \in Generators /\ held'.pattern = q
    BY <2>1, <2>3, <2>4, WithPatternIs
  <2>7. panel' \in Panels /\ panel'.real = held'.actual /\ panel'.lines = panel.lines
    BY <2>1, <2>4, <2>6, SyncedIs DEF ConfigChanged
  <2>8. editor' = Drawn(held', panel')
    BY <2>4, <2>7 DEF ConfigChanged, Drawn
  <2>9. GeneratorInv'
    BY <1>1, <2>3, <2>4, <2>7, <2>8, PatternKeeps
  <2>10. QED
    BY <2>5, <2>6, <2>9
<1>2. CASE ~HasGenerator
  BY <1>2 DEF PressCell, GeneratorInv, Remembered, Shows, DrawingIsHeld, DeviceFollows, HasGenerator
<1>3. QED
  BY <1>1, <1>2

\* a pattern loaded from a file,
LEMMA LoadKeeps ==
  ASSUME GeneratorInv, NEW p \in OemFiles \cup {file}, Load(p)
  PROVE  GeneratorInv' /\ held'.pattern = p
<1>1. HasGenerator /\ p \in Patterns
  BY GeneratorAssumption DEF Load, GeneratorInv, Remembered
<1>2. held \in Generators /\ panel \in Panels
  BY <1>1, HeldAndShown
<1>3. /\ held' = WithPattern(held, p) /\ ConfigChanged(panel, held')
      /\ UNCHANGED <<instrument, running, sending, owed, device, failures, file>>
  BY DEF Load
<1>4. held' \in Generators /\ held'.pattern = p
  BY <1>1, <1>2, <1>3, WithPatternIs
<1>5. panel' \in Panels /\ panel'.real = held'.actual /\ panel'.lines = panel.lines
  BY <1>2, <1>3, <1>4, SyncedIs DEF ConfigChanged
<1>6. editor' = Drawn(held', panel')
  BY <1>3, <1>5 DEF ConfigChanged, Drawn
<1>7. QED
  BY <1>1, <1>3, <1>4, <1>5, <1>6, PatternKeeps

\* Download, which sends the whole configuration,
LEMMA DownloadKeeps == GeneratorInv /\ Download => GeneratorInv'
<1> SUFFICES ASSUME GeneratorInv, Download PROVE GeneratorInv'
  OBVIOUS
<1>1. PICK ok \in SUBSET Parts :
        /\ Flush(held, ok)
        /\ IF ok = Parts THEN ConfigChanged(panel, held) ELSE UNCHANGED <<panel, editor>>
  BY DEF Download
<1>2. HasGenerator /\ UNCHANGED <<instrument, running, sending, owed, held, file>>
  BY DEF Download
<1>3. held \in Generators /\ panel \in Panels /\ failures \in Nat
  BY <1>2, HeldAndShown
<1>4. /\ failures' \in Nat
      /\ failures' = 0 => /\ device'.output = held.output
                          /\ device'.pulse = PulseLengthFor(held.requested, Len(device'.pattern))
  BY <1>1, <1>3, FlushDoes
<1>5. panel' \in Panels /\ panel'.real = held.actual /\ editor' = Drawn(held, panel')
  <2>1. CASE ok = Parts
    BY <1>1, <1>3, <2>1, SyncedIs DEF ConfigChanged, Drawn
  <2>2. CASE ok # Parts
    BY <1>1, <1>2, <2>2, HeldAndShown
  <2>3. QED
    BY <2>1, <2>2
<1>6. QED
  BY <1>2, <1>4, <1>5 DEF GeneratorInv, Remembered, Shows, DrawingIsHeld, DeviceFollows, HasGenerator

\* a device that is connected, whose panel is built from what the generator
\* holds,
LEMMA ConnectKeeps == GeneratorInv /\ Connect => GeneratorInv'
<1> SUFFICES ASSUME GeneratorInv, Connect PROVE GeneratorInv'
  OBVIOUS
<1>1. DefaultPattern \in Patterns /\ DefaultRpm \in 1 .. MaxEncodable
  BY GeneratorAssumption
<1>2. Fresh \in Generators
  BY <1>1, SpeedsAreNumbers DEF Generators, Fresh
<1>3. Fresh.requested = DefaultRpm /\ Fresh.output = FALSE
  BY DEF Fresh
<1> DEFINE q == Alternating(DefaultPulses, {FirstOutput})
           p == [output |-> FALSE, speed |-> 1, top |-> MaxEncodable, pulses |-> DefaultPulses,
                 lines |-> {FirstOutput}, real |-> Dash, ceiling |-> Dash]
<1>4. q \in Patterns
  BY GeneratorAssumption, AlternatingIsPattern
<1>5. p \in Panels
  BY GeneratorAssumption DEF Panels, Dash
<1>6. /\ instrument' = "hantek" /\ held' = WithPattern(Fresh, q) /\ panel' = Pushed(p, held')
      /\ editor' = Drawn(held', panel') /\ UNCHANGED <<running, sending, owed, file>>
  BY DEF Connect
<1>7. PICK ok \in SUBSET Parts : Flush(Fresh, ok)
  BY DEF Connect
<1> HIDE DEF p, q
<1>8. /\ failures' \in Nat
      /\ failures' = 0 =>
           /\ device'.output = Fresh.output
           /\ device'.pulse = PulseLengthFor(Fresh.requested, Len(device'.pattern))
  BY <1>2, <1>7, FlushDoes DEF GeneratorInv, Remembered
<1>9. /\ held' \in Generators /\ held'.requested = Fresh.requested /\ held'.output = Fresh.output
      /\ held'.actual = Achievable(held'.requested, held'.pattern)
  BY <1>2, <1>4, <1>6, WithPatternIs
<1>10. panel' \in Panels /\ panel'.real = held'.actual
  BY <1>5, <1>6, <1>9, PushedIs
<1>11. QED
  BY <1>6, <1>8, <1>9, <1>10 DEF GeneratorInv, Remembered, Shows, DrawingIsHeld, DeviceFollows, HasGenerator

\* and the steps of the driver.
LEMMA DriverKeeps ==
  GeneratorInv /\ (ConnectPlain \/ Disconnect \/ Run \/ Stop \/ LoopSends) => GeneratorInv'
<1> SUFFICES ASSUME GeneratorInv, ConnectPlain \/ Disconnect \/ Run \/ Stop \/ LoopSends
             PROVE  GeneratorInv'
  OBVIOUS
<1>1. CASE ConnectPlain \/ Disconnect
  BY <1>1 DEF ConnectPlain, Disconnect, GeneratorInv, Remembered, Shows, DrawingIsHeld, DeviceFollows,
              HasGenerator
<1>2. CASE Run \/ Stop \/ TakeFlag
  BY <1>2 DEF Run, Stop, TakeFlag, RestOfDriver, GeneratorInv, Remembered, Shows, DrawingIsHeld,
              DeviceFollows, HasGenerator
<1>3. CASE SendTaken
  <2>1. /\ \E ok \in SUBSET Parts : Flush(held, ok)
        /\ UNCHANGED <<instrument, running, owed, held, panel, editor, file>>
    BY <1>3 DEF SendTaken, RestOfDriver
  <2>2. held \in Generators /\ failures \in Nat
    BY DEF GeneratorInv, Remembered
  <2>3. /\ failures' \in Nat
        /\ failures' = 0 => /\ device'.output = held.output
                            /\ device'.pulse = PulseLengthFor(held.requested, Len(device'.pattern))
    BY <2>1, <2>2, FlushDoes
  <2>4. QED
    BY <2>1, <2>3 DEF GeneratorInv, Remembered, Shows, DrawingIsHeld, DeviceFollows, HasGenerator
<1>4. QED
  BY <1>1, <1>2, <1>3 DEF LoopSends

\* The invariant is inductive.
LEMMA GeneratorInvNext == GeneratorInv /\ [GeneratorNext]_generatorVars => GeneratorInv'
<1> SUFFICES ASSUME GeneratorInv, [GeneratorNext]_generatorVars PROVE GeneratorInv'
  OBVIOUS
<1>1. CASE Panel
  BY <1>1, SetOutputKeeps, SetSpeedKeeps, BusSpeedKeeps, SetPulsesKeeps, SwitchLineKeeps DEF Panel
<1>2. CASE Edits
  <2>1. CASE Save
    BY <2>1 DEF Save, GeneratorInv, Remembered, Shows, DrawingIsHeld, DeviceFollows, HasGenerator, Generators
  <2>2. QED
    BY <1>2, <2>1, PressCellKeeps, LoadKeeps, DownloadKeeps DEF Edits
<1>3. CASE Driver
  BY <1>3, ConnectKeeps, DriverKeeps DEF Driver
<1>4. CASE UNCHANGED generatorVars
  BY <1>4 DEF generatorVars, GeneratorInv, Remembered, Shows, DrawingIsHeld, DeviceFollows, HasGenerator
<1>5. QED
  BY <1>1, <1>2, <1>3, <1>4 DEF GeneratorNext

\* And it holds of every state.
LEMMA GeneratorInvariant == GeneratorSpec => []GeneratorInv
<1>1. QED
  BY GeneratorInvInit, GeneratorInvNext, PTL DEF GeneratorSpec

\* syncFrom(), _showSpeeds(), _pushPattern(): whoever changes the pattern or the
\* request, the panel's "Real Speed" is what the device makes of both.
THEOREM GeneratorRealSpeedShown == GeneratorSpec => []RealSpeedShown
<1>1. GeneratorInv => RealSpeedShown
  BY DEF GeneratorInv, Remembered, Shows, RealSpeedShown
<1>2. QED
  BY <1>1, GeneratorInvariant, PTL

\* _refreshGeneratorTrace(): the grid shows the pattern the generator holds.
THEOREM GeneratorDrawingIsHeld == GeneratorSpec => []DrawingIsHeld
<1>1. GeneratorInv => DrawingIsHeld
  BY DEF GeneratorInv
<1>2. QED
  BY <1>1, GeneratorInvariant, PTL

\* _generatorChanged() and flush(): once nothing is owed, the device puts out what
\* was asked for and turns at the speed that was asked for.
THEOREM GeneratorDeviceFollows == GeneratorSpec => []DeviceFollows
<1>1. GeneratorInv => DeviceFollows
  BY DEF GeneratorInv
<1>2. QED
  BY <1>1, GeneratorInvariant, PTL

\* _pushPattern(), handleMousePress(): a level of the pattern changes when it is
\* pressed on a line that is shown, and otherwise only with the whole pattern.
THEOREM GeneratorEditsSurvive == GeneratorSpec => EditsSurvive
<1> DEFINE Survives ==
      HasGenerator /\ HasGenerator' /\ held'.pattern # held.pattern =>
        \/ panel'.pulses # panel.pulses
        \/ held'.pattern \in OemFiles \union {file}
        \/ OneCell(held.pattern, held'.pattern)
<1>1. ASSUME GeneratorInv, [GeneratorNext]_generatorVars PROVE Survives
  <2> SUFFICES ASSUME HasGenerator PROVE held'.pattern = held.pattern \/ Survives
    OBVIOUS
  <2>0. held \in Generators
    BY HeldAndShown, <1>1
  <2>1. ASSUME NEW on \in BOOLEAN, SetOutput(on) PROVE held'.pattern = held.pattern
    BY <2>0, <2>1 DEF SetOutput, Generators
  <2>2. ASSUME NEW rpm \in 1 .. MaxEncodable, SetSpeed(rpm) \/ BusSpeed(rpm)
        PROVE  held'.pattern = held.pattern
    <3>1. rpm \in Int
      BY GeneratorAssumption
    <3>2. held' = held \/ (Accepted(rpm) /\ held' = WithRpm(rpm))
      <4>1. CASE BusSpeed(rpm)
        BY <4>1 DEF BusSpeed
      <4>2. CASE SetSpeed(rpm) /\ Accepted(rpm)
        BY <4>2 DEF SetSpeed
      <4>3. CASE SetSpeed(rpm) /\ ~Accepted(rpm)
        BY <4>3 DEF SetSpeed
      <4>4. QED
        BY <2>2, <4>1, <4>2, <4>3
    <3>3. QED
      BY <1>1, <3>1, <3>2, WithRpmIs
  <2>3. ASSUME NEW n \in 1 .. MaxLength, SetPulses(n) PROVE Survives
    BY <1>1, <2>3, SetPulsesKeeps
  <2>4. ASSUME NEW o \in Outputs, SwitchLine(o) PROVE held'.pattern = held.pattern
    BY <2>4 DEF SwitchLine
  <2>5. ASSUME NEW i \in 1 .. MaxLength, NEW o \in Outputs, PressCell(i, o) PROVE Survives
    BY <1>1, <2>5, PressCellKeeps
  <2>6. ASSUME NEW p \in OemFiles \cup {file}, Load(p) PROVE Survives
    BY <1>1, <2>6, LoadKeeps
  <2>7. CASE Save \/ Download \/ UNCHANGED generatorVars
    BY <2>7 DEF Save, Download, generatorVars
  <2>8. CASE Driver
    BY <2>8 DEF Driver, Connect, ConnectPlain, Disconnect, Run, Stop, LoopSends, TakeFlag,
               SendTaken, RestOfDriver, HasGenerator
  <2>9. QED
    BY <1>1, <2>1, <2>2, <2>3, <2>4, <2>5, <2>6, <2>7, <2>8 DEF GeneratorNext, Panel, Edits
<1>2. GeneratorInv /\ [GeneratorNext]_generatorVars => [Survives]_generatorVars
  BY <1>1
<1>3. QED
  BY <1>2, GeneratorInvariant, PTL DEF GeneratorSpec, EditsSurvive

\* setRpm(): a speed that is not above the ceiling of a pattern gives every step of
\* it as many ticks as the device needs.
THEOREM AcceptedIsReachable ==
  ASSUME NEW p \in Patterns, NEW rpm \in 1 .. MaxRpmFor(Len(p))
  PROVE  PulseLengthFor(rpm, Len(p)) >= MinPulse
<1> DEFINE steps == Len(p)
<1>1. steps \in Nat \ {0} /\ ClockTicks \in Nat /\ MinPulse \in Nat \ {0} /\ MaxEncodable \in Nat
  BY PatternLength, GeneratorAssumption
<1>2. MaxRpmFor(steps) \in Int
  BY SpeedsAreNumbers
<1> HIDE DEF steps
<1>3. rpm \in Nat \ {0}
  BY <1>2 DEF steps
<1>4. rpm <= ClockTicks \div (steps * MinPulse)
  <2>1. steps * MinPulse \in Nat \ {0}
    BY <1>1
  <2>2. (ClockTicks \div (steps * MinPulse)) \in Nat
    BY <1>1, <2>1, Quotient
  <2>3. rpm <= MaxRpmFor(steps)
    BY <1>2 DEF steps
  <2>4. QED
    BY <1>1, <1>3, <2>2, <2>3 DEF MaxRpmFor
<1>5. rpm * (steps * MinPulse) <= ClockTicks
  BY <1>1, <1>3, <1>4, Quotient
<1>6. MinPulse * (steps * rpm) <= ClockTicks
  BY <1>1, <1>3, <1>5
<1>7. MinPulse <= ClockTicks \div (steps * rpm)
  <2>1. steps * rpm \in Nat \ {0}
    BY <1>1, <1>3
  <2>2. QED
    BY <1>1, <1>6, <2>1, Quotient
<1>8. QED
  BY <1>3, <1>7 DEF PulseLengthFor, steps

-----------------------------------------------------------------------------
\* What is scaled down keeps its order.
LEMMA Scaled ==
  ASSUME NEW x \in Nat, NEW y \in Nat, NEW n \in Nat, NEW d \in Nat \ {0}, x <= y
  PROVE  (x * n) \div d \in Nat /\ (y * n) \div d \in Nat /\ (x * n) \div d <= (y * n) \div d
<1>1. x * n \in Nat /\ y * n \in Nat /\ x * n <= y * n
  OBVIOUS
<1>2. \A u, v \in Nat : u <= v => u \div d \in Nat /\ v \div d \in Nat /\ u \div d <= v \div d
  OBVIOUS
<1>3. QED
  BY <1>1, <1>2

\* The bin of a voltage is one of the histogram's.
LEMMA BinInside ==
  ASSUME NEW lo \in Int, NEW hi \in Int, NEW v \in Int, lo < hi, lo <= v, v <= hi
  PROVE  Bin(v, lo, hi) \in 0 .. Bins - 1
<1>1. PICK n \in Nat \ {0} : n = Bins - 1
  BY HistogramAssumption
<1>2. PICK d \in Nat \ {0} : d = hi - lo
  OBVIOUS
<1>3. PICK x \in Nat : x = v - lo /\ x <= d
  BY <1>2
<1>4. x * n \in Nat /\ x * n <= d * n
  BY <1>3
<1>5. (x * n) \div d \in Nat /\ (x * n) \div d <= n
  <2>1. \A y \in Nat : y <= d * n => y \div d \in Nat /\ y \div d <= n
    OBVIOUS
  <2>2. QED
    BY <1>4, <2>1
<1>6. Bin(v, lo, hi) = (x * n) \div d
  BY <1>1, <1>2, <1>3 DEF Bin
<1>7. QED
  BY <1>1, <1>5, <1>6

\* The least element of a set that has one, and the greatest.
LEMMA LeastIs ==
  ASSUME NEW S \in SUBSET Int, NEW x \in S
  PROVE  /\ (\A y \in S : x <= y) => Min(S) = x
         /\ (\A y \in S : x >= y) => Max(S) = x
<1>1. ASSUME \A y \in S : x <= y PROVE Min(S) = x
  <2>1. Min(S) \in S /\ \A y \in S : Min(S) <= y
    BY <1>1 DEF Min
  <2>2. Min(S) <= x /\ x <= Min(S) /\ Min(S) \in Int /\ x \in Int
    BY <1>1, <2>1
  <2>3. QED
    BY <2>2
<1>2. ASSUME \A y \in S : x >= y PROVE Max(S) = x
  <2>1. Max(S) \in S /\ \A y \in S : Max(S) >= y
    BY <1>2 DEF Max
  <2>2. Max(S) >= x /\ x >= Max(S) /\ Max(S) \in Int /\ x \in Int
    BY <1>2, <2>1
  <2>3. QED
    BY <2>2
<1>3. QED
  BY <1>1, <1>2

\* The fullest bin, when there is but one.
LEMMA DensestIs ==
  ASSUME NEW bins \in SUBSET Nat, NEW h, NEW d \in bins, \A o \in bins : h[o] \in Nat,
         \A o \in bins : o # d => h[o] < h[d]
  PROVE  Densest(h, bins) = d
<1>1. {b \in bins : \A o \in bins : h[o] <= h[b]} = {d}
  <2>1. ASSUME NEW b \in bins, \A o \in bins : h[o] <= h[b] PROVE b = d
    BY <2>1
  <2>2. \A o \in bins : h[o] <= h[d]
    <3>1. ASSUME NEW o \in bins PROVE h[o] <= h[d]
      BY <3>1
    <3>2. QED
      BY <3>1
  <2>3. QED
    BY <2>1, <2>2
<1>2. Min({d}) = d
  <2>1. {d} \in SUBSET Int /\ d \in {d} /\ \A y \in {d} : d <= y
    OBVIOUS
  <2>2. QED
    BY <2>1, LeastIs
<1>3. QED
  BY <1>1, <1>2 DEF Densest

\* The fullest of some bins is one that no other exceeds.
LEMMA DensestOfTwo ==
  ASSUME NEW bins \in SUBSET Nat, NEW h, NEW p \in bins, NEW q \in bins,
         \A o \in bins : h[o] \in Nat, h[p] > 1, h[q] > 1,
         \A o \in bins : o # p /\ o # q => h[o] <= 1
  PROVE  Densest(h, bins) \in {p, q}
<1> DEFINE fullest == {b \in bins : \A o \in bins : h[o] <= h[b]}
<1>1. fullest \subseteq {p, q}
  <2>1. ASSUME NEW b \in bins, \A o \in bins : h[o] <= h[b] PROVE b \in {p, q}
    <3>1. h[p] <= h[b] /\ h[p] \in Nat /\ h[b] \in Nat
      BY <2>1
    <3>2. QED
      BY <3>1
  <2>2. QED
    BY <2>1
<1>2. \E x \in fullest : \A y \in fullest : x <= y
  <2>1. CASE h[p] < h[q]
    <3>1. q \in fullest
      <4>1. ASSUME NEW o \in bins PROVE h[o] <= h[q]
        BY <2>1
      <4>2. QED
        BY <4>1
    <3>2. p \notin fullest
      <4>1. h[p] \in Nat /\ h[q] \in Nat
        OBVIOUS
      <4>2. QED
        BY <2>1, <4>1
    <3>3. fullest = {q}
      BY <1>1, <3>1, <3>2
    <3>4. QED
      BY <3>3
  <2>2. CASE h[q] < h[p]
    <3>1. p \in fullest
      <4>1. ASSUME NEW o \in bins PROVE h[o] <= h[p]
        BY <2>2
      <4>2. QED
        BY <4>1
    <3>2. q \notin fullest
      <4>1. h[p] \in Nat /\ h[q] \in Nat
        OBVIOUS
      <4>2. QED
        BY <2>2, <4>1
    <3>3. fullest = {p}
      BY <1>1, <3>1, <3>2
    <3>4. QED
      BY <3>3
  <2>3. CASE h[p] = h[q]
    <3>1. \A o \in bins : h[o] <= h[p]
      <4>1. ASSUME NEW o \in bins PROVE h[o] <= h[p]
        BY <2>3
      <4>2. QED
        BY <4>1
    <3>2. p \in fullest /\ q \in fullest
      BY <2>3, <3>1
    <3>3. fullest = {p, q}
      BY <1>1, <3>2
    <3>4. p <= q \/ q <= p
      OBVIOUS
    <3>5. QED
      BY <3>3, <3>4
  <2>4. h[p] \in Nat /\ h[q] \in Nat
    OBVIOUS
  <2>5. QED
    BY <2>1, <2>2, <2>3, <2>4
<1>3. Min(fullest) \in fullest
  BY <1>2 DEF Min
<1>4. Densest(h, bins) = Min(fullest)
  BY DEF Densest
<1>5. QED
  BY <1>1, <1>3, <1>4

\* A set of naturals has a least element, and of bins with one sample at most, one
\* is the fullest.
LEMMA LeastNatural ==
  ASSUME NEW S \in SUBSET Nat, S # {}
  PROVE  Min(S) \in S
<1> DEFINE R == OpToRel(<, Nat)
<1>1. R = {ss \in Nat \X Nat : ss[1] < ss[2]}
  BY DEF OpToRel
<1>2. IsWellFoundedOn(R, Nat)
  BY NatLessThanWellFounded
<1> HIDE DEF R
<1>3. PICK n \in S : \A y \in S : ~ (<<y, n>> \in R)
  BY <1>2, WFMin
<1>4. \A y \in S : n <= y
  <2>1. \A y \in S : ~(y < n)
    BY <1>1, <1>3
  <2>2. QED
    BY <2>1
<1>5. Min(S) = n
  <2>1. S \in SUBSET Int
    OBVIOUS
  <2>2. QED
    BY <1>4, <2>1, LeastIs
<1>6. QED
  BY <1>5

LEMMA DensestOfFew ==
  ASSUME NEW bins \in SUBSET Nat, NEW h, bins # {}, \A o \in bins : h[o] \in {0, 1}
  PROVE  Densest(h, bins) \in bins
<1> DEFINE fullest == {b \in bins : \A o \in bins : h[o] <= h[b]}
<1>1. fullest # {}
  <2>1. PICK b \in bins : h[b] = 1 \/ \A o \in bins : h[o] = 0
    OBVIOUS
  <2>2. ASSUME NEW o \in bins PROVE h[o] <= h[b]
    <3>1. h[o] \in {0, 1} /\ h[b] \in {0, 1} /\ (h[b] = 1 \/ (h[o] = 0 /\ h[b] = 0))
      BY <2>1
    <3>2. QED
      BY <3>1
  <2>3. b \in fullest
    BY <2>2
  <2>4. QED
    BY <2>3
<1>2. Densest(h, bins) = Min(fullest)
  BY DEF Densest
<1>3. fullest \in SUBSET Nat /\ fullest \subseteq bins
  OBVIOUS
<1> HIDE DEF fullest
<1>4. QED
  BY <1>1, <1>2, <1>3, LeastNatural

\* Two bins, or one that is both, hold two samples or more each and have their
\* shares, while every other holds at most one.
TwoFull(h, count, p, q) ==
  /\ h \in [0 .. Bins - 1 -> Nat] /\ p \in 0 .. Bins - 1 /\ q \in 0 .. Bins - 1
  /\ h[p] > 1 /\ h[q] > 1
  /\ \A o \in 0 .. Bins - 1 : o # p /\ o # q => h[o] <= 1
  /\ (h[p] + h[q]) * 100 >= ModeShare * count
  /\ h[p] * 100 >= SecondShare * count /\ h[q] * 100 >= SecondShare * count

\* When they are far enough apart, they are the modes, whichever is the fuller.
LEMMA ModesAre ==
  ASSUME NEW h, NEW count, NEW p, NEW q, TwoFull(h, count, p, q), q - p >= MinSeparation
  PROVE  Modes(h, count) = {p, q}
<1> USE DEF TwoFull
<1> DEFINE first == Densest(h, DOMAIN h)
           far(f) == {b \in DOMAIN h : b - f >= MinSeparation \/ f - b >= MinSeparation}
<1>1. Bins \in Nat /\ MinSeparation \in Nat \ {0}
  BY HistogramAssumption
<1>2. DOMAIN h = 0 .. Bins - 1 /\ DOMAIN h \in SUBSET Nat
  BY <1>1
<1>3. first \in {p, q}
  BY <1>2, DensestOfTwo
<1>4. ASSUME NEW f, NEW g, f \in {p, q}, {f, g} = {p, q}, f # g
      PROVE  far(f) # {} /\ Densest(h, far(f)) = g
  <2>1. g \in far(f) /\ f \notin far(f) /\ far(f) \in SUBSET Nat
    <3>1. (f = p /\ g = q) \/ (f = q /\ g = p)
      BY <1>4
    <3>2. f \in 0 .. Bins - 1 /\ g \in 0 .. Bins - 1
          /\ (g - f >= MinSeparation \/ f - g >= MinSeparation)
      BY <3>1
    <3>3. ~(f - f >= MinSeparation)
      BY <1>1, <3>2
    <3>4. QED
      BY <1>1, <1>2, <3>2, <3>3
  <2>2. \A o \in far(f) : h[o] \in Nat
    BY <1>2
  <2>3. \A o \in far(f) : o # g => h[o] < h[g]
    <3>1. ASSUME NEW o \in far(f), o # g PROVE h[o] < h[g]
      <4>1. o \in 0 .. Bins - 1 /\ o # p /\ o # q
        <5>1. o \in 0 .. Bins - 1 /\ o # f /\ o # g
          BY <1>2, <2>1, <3>1
        <5>2. QED
          BY <1>4, <5>1
      <4>2. h[o] <= 1 /\ h[o] \in Nat /\ h[g] > 1 /\ h[g] \in Nat
        <5>1. g \in {p, q}
          BY <1>4
        <5>2. QED
          BY <4>1, <5>1
      <4>3. QED
        BY <4>2
    <3>2. QED
      BY <3>1
  <2> HIDE DEF far
  <2>4. QED
    BY <2>1, <2>2, <2>3, DensestIs
<1>5. p # q
  BY <1>1
<1>6. PICK f, g : f = first /\ f \in {p, q} /\ {f, g} = {p, q} /\ f # g
  BY <1>3, <1>5
<1>7. far(f) # {} /\ Densest(h, far(f)) = g
  BY <1>4, <1>6
<1>8. h[f] + h[g] = h[p] + h[q] /\ h[g] * 100 >= SecondShare * count
  <2>1. (f = p /\ g = q) \/ (f = q /\ g = p)
    BY <1>5, <1>6
  <2>2. h[p] + h[q] = h[q] + h[p]
    OBVIOUS
  <2>3. QED
    BY <2>1, <2>2
<1>9. Modes(h, count) = IF /\ far(f) # {}
                           /\ (h[f] + h[Densest(h, far(f))]) * 100 >= ModeShare * count
                           /\ h[Densest(h, far(f))] * 100 >= SecondShare * count
                        THEN {f, Densest(h, far(f))} ELSE {0, Bins - 1}
  BY <1>6 DEF Modes
<1> HIDE DEF far, first
<1>10. Modes(h, count) = {f, g}
  BY <1>7, <1>8, <1>9
<1>11. QED
  BY <1>6, <1>10

\* When they are not, and one sample is too small a share, there are no two modes.
LEMMA ModesFallBack ==
  ASSUME NEW h, NEW count \in Nat, NEW p, NEW q, TwoFull(h, count, p, q),
         q - p < MinSeparation, p <= q, 100 < SecondShare * count
  PROVE  Modes(h, count) = {0, Bins - 1}
<1> USE DEF TwoFull
<1> DEFINE first == Densest(h, DOMAIN h)
           far == {b \in DOMAIN h : b - first >= MinSeparation \/ first - b >= MinSeparation}
<1>1. Bins \in Nat /\ MinSeparation \in Nat \ {0} /\ SecondShare \in Nat
  BY HistogramAssumption
<1>2. DOMAIN h = 0 .. Bins - 1 /\ DOMAIN h \in SUBSET Nat
  BY <1>1
<1>3. first \in {p, q}
  BY <1>2, DensestOfTwo
<1>4. \A b \in far : b \in 0 .. Bins - 1 /\ h[b] \in Nat /\ h[b] <= 1
  <2>1. ASSUME NEW b \in far PROVE b \in 0 .. Bins - 1 /\ b # p /\ b # q
    <3>1. b \in 0 .. Bins - 1 /\ (b - first >= MinSeparation \/ first - b >= MinSeparation)
      BY <1>2
    <3> HIDE DEF first
    <3>2. QED
      BY <1>1, <1>3, <3>1
  <2>2. QED
    BY <2>1
<1>5. far # {} => Densest(h, far) \in far
  <2>1. far \in SUBSET Nat
    BY <1>2
  <2> HIDE DEF far
  <2>2. \A b \in far : h[b] \in {0, 1}
    BY <1>4
  <2>3. QED
    BY <2>1, <2>2, DensestOfFew
<1> HIDE DEF far
<1>6. ~(far # {} /\ h[Densest(h, far)] * 100 >= SecondShare * count)
  <2>1. SecondShare * count \in Nat
    BY <1>1
  <2>2. ASSUME NEW x \in Nat, x <= 1 PROVE ~(x * 100 >= SecondShare * count)
    BY <2>1, <2>2
  <2>3. QED
    BY <1>4, <1>5, <2>2
<1>7. QED
  BY <1>6 DEF Modes, far

\* A record has a least and a greatest sample.
LEMMA ExtremesOf ==
  ASSUME NEW s \in Seq(Int), Len(s) # 0
  PROVE  \E lo, hi \in {s[i] : i \in 1 .. Len(s)} : \A v \in {s[i] : i \in 1 .. Len(s)} : lo <= v /\ v <= hi
<1>1. PICK n \in Nat : n = Len(s) - 1
  OBVIOUS
<1> DEFINE e == Extremes(s, 0 .. n)
<1>0. 0 \in Nat /\ 0 <= n /\ n < Len(s)
  BY <1>1
<1>2. /\ \E i \in 0 .. n : e.top = s[i + 1]
      /\ \E i \in 0 .. n : e.bottom = s[i + 1]
      /\ \A i \in 0 .. n : e.bottom <= s[i + 1] /\ s[i + 1] <= e.top
  BY <1>0, ExtremesBound
<1> HIDE DEF e
<1>3. PICK i \in 1 .. Len(s), j \in 1 .. Len(s) : e.bottom = s[i] /\ e.top = s[j]
  <2>1. \A k \in 0 .. n : k + 1 \in 1 .. Len(s)
    BY <1>1
  <2>2. QED
    BY <1>2, <2>1
<1>4. \A k \in 1 .. Len(s) : s[i] <= s[k] /\ s[k] <= s[j]
  <2>1. \A k \in 1 .. Len(s) : k - 1 \in 0 .. n /\ (k - 1) + 1 = k
    BY <1>1
  <2>2. QED
    BY <1>2, <1>3, <2>1
<1>5. \A v \in {s[k] : k \in 1 .. Len(s)} : s[i] <= v /\ v <= s[j]
  BY <1>4
<1>6. s[i] \in {s[k] : k \in 1 .. Len(s)} /\ s[j] \in {s[k] : k \in 1 .. Len(s)}
  OBVIOUS
<1>7. QED
  BY <1>5, <1>6

\* A record of two levels: where they are read, and that the rest is the extremes.
LEMMA LevelsAre ==
  ASSUME TypeOK, ModeShare <= 75, NEW a \in Volts, NEW b \in Volts, TwoLevels(a, b)
  PROVE  LET lo   == Min(Range(samples))
             hi   == Max(Range(samples))
             low  == Bin(a, lo, hi)
             high == Bin(b, lo, hi)
         IN  IF high - low >= MinSeparation
             THEN Levels(samples) = [base |-> VoltsOf(samples, low), top |-> VoltsOf(samples, high)]
             ELSE 100 < SecondShare * Len(samples) => Levels(samples) = [base |-> lo, top |-> hi]
<1>0. /\ a < b /\ Held(a) > 1 /\ Held(b) > 1 /\ Held(a) + Held(b) >= Len(samples) - 1
      /\ Held(a) * 100 >= SecondShare * Len(samples) /\ Held(b) * 100 >= SecondShare * Len(samples)
  BY DEF TwoLevels
<1> DEFINE n == Len(samples)
           record == {samples[i] : i \in 1 .. n}
           has(v) == {i \in 1 .. n : samples[i] = v}
<1>1. /\ samples \in Seq(Int) /\ samples \in Seq(Volts) /\ n \in Nat /\ DOMAIN samples = 1 .. n
      /\ \A i \in 1 .. n : samples[i] \in Volts /\ samples[i] \in Int
      /\ Volts \subseteq Int /\ n # 0 /\ a \in Int /\ b \in Int
  <2>1. samples \in Seq(Volts) /\ samples # <<>> /\ Volts \subseteq Int
    BY DetectorAssumption DEF TypeOK
  <2>2. \A i \in 1 .. n : samples[i] \in Volts
    BY <2>1
  <2>3. samples \in Seq(Int)
    BY RecordKept DEF IsRecord
  <2>4. QED
    BY <2>1, <2>2, <2>3
<1>2. \A v : Held(v) = Cardinality(has(v))
  BY <1>1 DEF Held
<1>3. PICK lo \in Volts, hi \in Volts :
        /\ lo \in record /\ hi \in record /\ \A v \in record : lo <= v /\ v <= hi
        /\ Min(record) = lo /\ Max(record) = hi
  <2>1. PICK lo \in record, hi \in record : \A v \in record : lo <= v /\ v <= hi
    BY <1>1, ExtremesOf
  <2>2. record \in SUBSET Int
    BY <1>1
  <2> HIDE DEF record
  <2>3. Min(record) = lo /\ Max(record) = hi
    <3>1. (\A y \in record : lo <= y) /\ (\A y \in record : hi >= y)
      BY <2>1, <2>2
    <3>2. QED
      BY <2>1, <2>2, <3>1, LeastIs
  <2>4. lo \in Volts /\ hi \in Volts
    BY <1>1, <2>1 DEF record
  <2>5. QED
    BY <2>1, <2>3, <2>4
<1>4. a \in record /\ b \in record /\ lo <= a /\ b <= hi /\ lo < hi
  <2>1. ASSUME NEW v, Held(v) > 1 PROVE v \in record
    <3>1. has(v) # {}
      <4>1. Cardinality(has(v)) # 0
        BY <1>2, <2>1
      <4>2. QED
        BY <4>1, FS_EmptySet
    <3>2. QED
      BY <3>1
  <2>2. a \in record /\ b \in record
    BY <1>0, <2>1
  <2> HIDE DEF record
  <2>3. QED
    BY <1>0, <1>1, <1>3, <2>2
<1>5. Cardinality(record) # 1
  <2> DEFINE f == [i \in 1 .. n |-> samples[i]]
  <2>1. f \in Surjection(1 .. n, record)
    BY DEF Surjection
  <2>2. IsFiniteSet(1 .. n)
    BY <1>1, FS_Interval
  <2>3. IsFiniteSet(record)
    BY <2>1, <2>2, FS_Surjection
  <2> HIDE DEF record
  <2>4. QED
    BY <1>0, <1>1, <1>4, <2>3, FS_Singleton
<1> DEFINE bin == [i \in 1 .. n |-> Bin(samples[i], lo, hi)]
           h == [c \in 0 .. Bins - 1 |-> Cardinality({i \in 1 .. n : bin[i] = c})]
           p == Bin(a, lo, hi)
           q == Bin(b, lo, hi)
<1>6. Histogram(samples) = h
  BY <1>1, <1>3 DEF Histogram, Range, Bin
<1>7. Levels(samples) = LET modes == Modes(h, n)
                        IN  BaseAndTop(VoltsOf(samples, Min(modes)), VoltsOf(samples, Max(modes)))
  BY <1>1, <1>5, <1>6 DEF Levels, Range
<1>8. \A c : VoltsOf(samples, c) = lo + (c * (hi - lo)) \div (Bins - 1)
  BY <1>1, <1>3 DEF VoltsOf, Range
<1>9. /\ p \in 0 .. Bins - 1 /\ q \in 0 .. Bins - 1 /\ p <= q
      /\ Bins \in Nat \ {0, 1} /\ MinSeparation \in Nat \ {0}
  <2>1. a <= hi /\ lo <= b /\ lo \in Int /\ hi \in Int
    BY <1>0, <1>1, <1>3, <1>4
  <2>2. p \in 0 .. Bins - 1 /\ q \in 0 .. Bins - 1
    BY <1>1, <1>4, <2>1, BinInside
  <2>3. Bins \in Nat \ {0, 1} /\ MinSeparation \in Nat \ {0}
    BY HistogramAssumption
  <2>4. p <= q
    <3>1. a - lo \in Nat /\ b - lo \in Nat /\ Bins - 1 \in Nat /\ hi - lo \in Nat \ {0}
          /\ a - lo <= b - lo
      BY <1>0, <1>1, <1>4, <2>1, <2>3
    <3>2. ((a - lo) * (Bins - 1)) \div (hi - lo) <= ((b - lo) * (Bins - 1)) \div (hi - lo)
      BY <3>1, Scaled
    <3>3. QED
      BY <3>2 DEF Bin
  <2> HIDE DEF p, q
  <2>5. QED
    BY <2>2, <2>3, <2>4
\* In the bins of the levels are at least the samples of the levels.
<1>13. \A i \in 1 .. n : (samples[i] = a => bin[i] = p) /\ (samples[i] = b => bin[i] = q)
  OBVIOUS
<1>14. /\ IsFiniteSet(1 .. n) /\ Cardinality(1 .. n) = n
       /\ \A T \in SUBSET (1 .. n) : IsFiniteSet(T) /\ Cardinality(T) \in Nat /\ Cardinality(T) <= n
  <2>1. PICK m \in Nat : m = n /\ m # 0
    BY <1>1
  <2>2. 1 \in Int /\ m \in Int /\ ~(1 > m) /\ m - 1 + 1 = m
    BY <2>1
  <2>3. IsFiniteSet(1 .. m) /\ Cardinality(1 .. m) = m
    BY <2>2, FS_Interval
  <2>4. IsFiniteSet(1 .. n) /\ Cardinality(1 .. n) = n
    BY <2>1, <2>3
  <2>5. QED
    BY <2>4, FS_Subset, FS_CardinalityType
<1>15. Held(a) \in Nat /\ Held(b) \in Nat
  BY <1>2, <1>14
<1>10. h[p] \in Nat /\ h[q] \in Nat /\ Held(a) <= h[p] /\ Held(b) <= h[q]
  <2> DEFINE inP == {i \in 1 .. n : bin[i] = p}
             inQ == {i \in 1 .. n : bin[i] = q}
  <2>1. h[p] = Cardinality(inP) /\ h[q] = Cardinality(inQ)
    BY <1>9
  <2>2. has(a) \subseteq inP /\ has(b) \subseteq inQ /\ inP \in SUBSET (1 .. n) /\ inQ \in SUBSET (1 .. n)
    BY <1>13
  <2> HIDE DEF inP, inQ, has, h, p, q, bin
  <2>3. IsFiniteSet(inP) /\ IsFiniteSet(inQ) /\ Cardinality(inP) \in Nat /\ Cardinality(inQ) \in Nat
    BY <1>14, <2>2
  <2>4. Cardinality(has(a)) <= Cardinality(inP) /\ Cardinality(has(b)) <= Cardinality(inQ)
    BY <2>2, <2>3, FS_Subset
  <2>5. Held(a) <= h[p] /\ Held(b) <= h[q]
    BY <1>2, <2>1, <2>4
  <2>6. QED
    BY <1>15, <2>1, <2>3, <2>5
\* All but one of the samples are at one of the levels.
<1>16. ASSUME NEW T \in SUBSET (1 .. n), T \cap has(a) = {}, T \cap has(b) = {}
       PROVE  Cardinality(T) <= 1
  <2>1. has(a) \in SUBSET (1 .. n) /\ has(b) \in SUBSET (1 .. n) /\ has(a) \cap has(b) = {}
    BY <1>0, <1>1
  <2> HIDE DEF has
  <2>2. /\ IsFiniteSet(has(a)) /\ IsFiniteSet(has(b)) /\ IsFiniteSet(T)
        /\ Cardinality(has(a)) = Held(a) /\ Cardinality(has(b)) = Held(b) /\ Cardinality(T) \in Nat
    BY <1>2, <1>14, <2>1
  <2>3. IsFiniteSet(has(a) \cup has(b)) /\ Cardinality(has(a) \cup has(b)) = Held(a) + Held(b)
    <3>1. Cardinality(has(a) \cup has(b)) = Held(a) + Held(b) - Cardinality({})
      BY <2>1, <2>2, FS_Union
    <3>2. QED
      <4>1. IsFiniteSet(has(a) \cup has(b))
        BY <2>2, FS_Union
      <4>2. QED
        BY <1>15, <3>1, <4>1, FS_EmptySet
  <2>4. Cardinality((has(a) \cup has(b)) \cup T) = Held(a) + Held(b) + Cardinality(T)
    <3>1. (has(a) \cup has(b)) \cap T = {}
      BY <1>16
    <3>2. Cardinality((has(a) \cup has(b)) \cup T) = Held(a) + Held(b) + Cardinality(T) - Cardinality({})
      BY <2>2, <2>3, <3>1, FS_Union
    <3>3. QED
      BY <1>15, <2>2, <3>2, FS_EmptySet
  <2>5. Cardinality((has(a) \cup has(b)) \cup T) <= n
    BY <1>14, <2>1
  <2>6. Held(a) + Held(b) + Cardinality(T) <= n
    BY <2>4, <2>5
  <2>7. QED
    BY <1>0, <1>1, <1>15, <2>2, <2>6
<1>17. /\ h \in [0 .. Bins - 1 -> Nat]
       /\ \A c \in 0 .. Bins - 1 : c # p /\ c # q => h[c] <= 1
  <2>1. ASSUME NEW c \in 0 .. Bins - 1
        PROVE  /\ Cardinality({i \in 1 .. n : bin[i] = c}) \in Nat
               /\ c # p /\ c # q => Cardinality({i \in 1 .. n : bin[i] = c}) <= 1
    <3> DEFINE T == {i \in 1 .. n : bin[i] = c}
    <3>1. T \in SUBSET (1 .. n)
      OBVIOUS
    <3>2. ASSUME c # p, c # q PROVE T \cap has(a) = {} /\ T \cap has(b) = {}
      <4> HIDE DEF bin, p, q
      <4>1. QED
        BY <1>13, <3>2
    <3> HIDE DEF T, has, p, q
    <3>3. Cardinality(T) \in Nat /\ (c # p /\ c # q => Cardinality(T) <= 1)
      BY <1>14, <1>16, <3>1, <3>2
    <3>4. QED
      BY <3>3 DEF T
  <2>2. QED
    BY <2>1
<1> HIDE DEF h, p, q, has, bin, record
\* With four samples or more, all but one are three quarters of them.
<1>18. n >= 4 /\ (h[p] + h[q]) * 100 >= ModeShare * n
  <2>1. n >= 4
    <3>1. Held(a) + Held(b) <= n
      <4>1. has(a) \in SUBSET (1 .. n) /\ has(b) \in SUBSET (1 .. n) /\ has(a) \cap has(b) = {}
        BY <1>0, <1>1 DEF has
      <4>2. IsFiniteSet(has(a)) /\ IsFiniteSet(has(b))
            /\ Cardinality(has(a)) = Held(a) /\ Cardinality(has(b)) = Held(b)
        BY <1>2, <1>14, <4>1
      <4>3. Cardinality(has(a) \cup has(b)) = Held(a) + Held(b) - Cardinality({})
        BY <4>1, <4>2, FS_Union
      <4>4. Cardinality(has(a) \cup has(b)) <= n
        BY <1>14, <4>1
      <4>5. QED
        BY <1>15, <4>3, <4>4, FS_EmptySet
    <3>2. QED
      BY <1>0, <1>1, <1>15, <3>1
  <2>2. PICK m \in Nat : m = ModeShare /\ m <= 75
    BY HistogramAssumption
  <2>3. m * n <= 75 * n
    BY <1>1, <2>2
  <2>4. (h[p] + h[q]) * 100 >= (n - 1) * 100
    <3>1. \A u, v, x, y, k \in Nat : u + v >= k - 1 /\ u <= x /\ v <= y => (x + y) * 100 >= (k - 1) * 100
      OBVIOUS
    <3>2. QED
      BY <1>0, <1>1, <1>10, <1>15, <3>1
  <2>5. \A x, y, k \in Nat : k >= 4 /\ x * 100 >= (k - 1) * 100 /\ y <= 75 * k => x * 100 >= y
    OBVIOUS
  <2>6. h[p] + h[q] \in Nat /\ m * n \in Nat
    BY <1>1, <1>10
  <2>7. (h[p] + h[q]) * 100 >= m * n
    BY <1>1, <2>1, <2>3, <2>4, <2>5, <2>6
  <2>8. QED
    BY <2>1, <2>2, <2>7
<1>19. TwoFull(h, n, p, q)
  <2>1. h[p] > 1 /\ h[q] > 1 /\ h[p] * 100 >= SecondShare * n /\ h[q] * 100 >= SecondShare * n
    <3>1. SecondShare * n \in Nat
      BY <1>1, HistogramAssumption
    <3>2. QED
      BY <1>0, <1>10, <1>15, <3>1
  <2>2. QED
    BY <1>9, <1>17, <1>18, <2>1 DEF TwoFull
\* The voltage of a bin: the extremes for the first and the last, and in order.
<1>20. ASSUME NEW c \in 0 .. Bins - 1, NEW e \in 0 .. Bins - 1, c <= e,
              Modes(h, n) = {c, e}
       PROVE  Levels(samples) = [base |-> VoltsOf(samples, c), top |-> VoltsOf(samples, e)]
  <2>1. Min({c, e}) = c /\ Max({c, e}) = e
    <3>1. c \in Int /\ e \in Int /\ (c >= e => c = e)
      BY <1>20
    <3>2. QED
      BY <1>20, <3>1, OfTwo
  <2>2. VoltsOf(samples, c) \in Int /\ VoltsOf(samples, e) \in Int
        /\ VoltsOf(samples, c) <= VoltsOf(samples, e)
    <3>1. PICK d \in Nat, m \in Nat \ {0} : d = hi - lo /\ m = Bins - 1 /\ lo \in Int
      BY <1>1, <1>3, <1>4, <1>9
    <3>2. (c * d) \div m \in Nat /\ (e * d) \div m \in Nat /\ (c * d) \div m <= (e * d) \div m
      <4>1. c \in Nat /\ e \in Nat
        BY <1>9
      <4>2. QED
        BY <1>20, <3>1, <4>1, Scaled
    <3>3. VoltsOf(samples, c) = lo + (c * d) \div m /\ VoltsOf(samples, e) = lo + (e * d) \div m
      BY <1>8, <3>1
    <3>4. QED
      BY <3>1, <3>2, <3>3
  <2>3. Levels(samples) = BaseAndTop(VoltsOf(samples, c), VoltsOf(samples, e))
    BY <1>7, <1>20, <2>1
  <2>4. \A x, y \in Int : x <= y => BaseAndTop(x, y) = [base |-> x, top |-> y]
    <3>1. \A x, y \in Int : x <= y => Min({x, y}) = x /\ Max({x, y}) = y
      BY OfTwo
    <3>2. QED
      BY <3>1 DEF BaseAndTop
  <2>5. QED
    BY <2>2, <2>3, <2>4
<1>21. CASE q - p >= MinSeparation
  <2>1. Levels(samples) = [base |-> VoltsOf(samples, p), top |-> VoltsOf(samples, q)]
    BY <1>9, <1>19, <1>20, <1>21, ModesAre
  <2>2. QED
    BY <1>1, <1>3, <1>21, <2>1 DEF p, q, record, Range
<1>22. CASE ~(q - p >= MinSeparation)
  <2>1. ASSUME 100 < SecondShare * n PROVE Levels(samples) = [base |-> lo, top |-> hi]
    <3>1. q - p < MinSeparation
      BY <1>9, <1>22
    <3>2. Modes(h, n) = {0, Bins - 1}
      BY <1>1, <1>9, <1>19, <2>1, <3>1, ModesFallBack
    <3>3. Levels(samples) = [base |-> VoltsOf(samples, 0), top |-> VoltsOf(samples, Bins - 1)]
      <4>1. 0 \in 0 .. Bins - 1 /\ Bins - 1 \in 0 .. Bins - 1 /\ 0 <= Bins - 1
        BY <1>9
      <4>2. QED
        BY <1>20, <3>2, <4>1
    <3>4. VoltsOf(samples, 0) = lo /\ VoltsOf(samples, Bins - 1) = hi
      <4>1. PICK d \in Nat, m \in Nat \ {0} : d = hi - lo /\ m = Bins - 1 /\ lo \in Int /\ hi \in Int
        BY <1>1, <1>3, <1>4, <1>9
      <4>2. (0 * d) \div m = 0 /\ (m * d) \div m = d
        OBVIOUS
      <4>3. QED
        BY <1>8, <4>1, <4>2
    <3>5. QED
      BY <3>3, <3>4
  <2>2. QED
    BY <1>1, <1>3, <1>22, <2>1 DEF p, q, record, Range
<1>23. QED
  BY <1>21, <1>22

\* findLevels(): a dropout moves neither base nor top of a record of two levels that
\* are still far enough apart in the histogram it stretches, and where they are not,
\* nothing but the extremes of the record is reported: for records of any length and
\* histograms of any size.
THEOREM DetectorLevelsIgnoreDropout ==
  ASSUME ModeShare <= 75 PROVE Spec => []LevelsIgnoreDropout
<1>1. TypeOK => LevelsIgnoreDropout
  BY LevelsAre DEF LevelsIgnoreDropout
<1>2. DetectorInv => TypeOK
  BY DEF DetectorInv
<1>3. QED
  BY <1>1, <1>2, DetectorCorrect, PTL

-----------------------------------------------------------------------------
\* InOrder enumerates a set of indices: every one of them, the least first.
LEMMA InOrderIs ==
  ASSUME NEW N \in Nat, NEW S \in SUBSET (1 .. N)
  PROVE  /\ Cardinality(S) \in Nat /\ DOMAIN InOrder(S) = 1 .. Cardinality(S)
         /\ \A n \in 1 .. Cardinality(S) : InOrder(S)[n] \in S
         /\ \A m, n \in 1 .. Cardinality(S) : m < n => InOrder(S)[m] < InOrder(S)[n]
         /\ \A k \in S : \E n \in 1 .. Cardinality(S) : InOrder(S)[n] = k
<1> DEFINE upTo(k) == {j \in S : j <= k}
           rank == [k \in S |-> Cardinality(upTo(k))]
<1>0. IsFiniteSet(S) /\ Cardinality(S) \in Nat
  <2>1. IsFiniteSet(1 .. N)
    BY FS_Interval
  <2>2. QED
    BY <2>1, FS_Subset, FS_CardinalityType
<1> PICK c \in Nat : c = Cardinality(S)
  BY <1>0
<1>1. \A k \in S : rank[k] = Cardinality(upTo(k))
  OBVIOUS
<1>2. \A k \in S : rank[k] \in 1 .. c
  <2> SUFFICES ASSUME NEW k \in S PROVE Cardinality(upTo(k)) \in 1 .. c
    BY <1>1
  <2>1. upTo(k) \in SUBSET S /\ k \in upTo(k)
    OBVIOUS
  <2> HIDE DEF upTo
  <2>2. IsFiniteSet(upTo(k)) /\ Cardinality(upTo(k)) <= c
    BY <1>0, <2>1, FS_Subset
  <2>3. Cardinality(upTo(k)) \in Nat /\ Cardinality(upTo(k)) # 0
    BY <2>1, <2>2, FS_CardinalityType, FS_EmptySet
  <2>4. QED
    BY <2>2, <2>3
<1>3. ASSUME NEW j \in S, NEW k \in S, j < k PROVE rank[j] < rank[k]
  <2>0. j \in Int /\ k \in Int /\ \A i \in S : i \in Int
    OBVIOUS
  <2>1. upTo(j) \in SUBSET upTo(k) /\ k \in upTo(k) /\ k \notin upTo(j) /\ upTo(k) \in SUBSET S
    <3>1. upTo(j) \in SUBSET upTo(k)
      <4>1. \A i \in S : i <= j => i <= k
        BY <1>3, <2>0
      <4>2. QED
        BY <4>1
    <3>2. k \in upTo(k) /\ k \notin upTo(j)
      BY <1>3, <2>0
    <3>3. QED
      BY <3>1, <3>2
  <2> HIDE DEF upTo, rank
  <2>2. IsFiniteSet(upTo(k))
    BY <1>0, <2>1, FS_Subset
  <2>3. IsFiniteSet(upTo(j)) /\ Cardinality(upTo(j)) <= Cardinality(upTo(k))
        /\ Cardinality(upTo(k)) # Cardinality(upTo(j))
    BY <2>1, <2>2, FS_Subset
  <2>4. Cardinality(upTo(j)) \in Nat /\ Cardinality(upTo(k)) \in Nat
    BY <2>2, <2>3, FS_CardinalityType
  <2>5. QED
    BY <1>1, <2>3, <2>4
<1> DEFINE places == {rank[k] : k \in S}
<1>4. rank \in [S -> places] /\ \A p \in places : \E k \in S : rank[k] = p
  OBVIOUS
<1>5. /\ DOMAIN InOrder(S) = 1 .. c
      /\ \A n \in 1 .. c : InOrder(S)[n] = CHOOSE k \in S : Cardinality({j \in S : j <= k}) = n
      /\ \A k \in S : rank[k] = Cardinality({j \in S : j <= k})
  BY DEF InOrder
<1>6. places \in SUBSET (1 .. c)
  BY <1>2
<1> HIDE DEF rank, places
<1>7. \A j, k \in S : rank[j] = rank[k] => j = k
  <2> SUFFICES ASSUME NEW j \in S, NEW k \in S, j # k PROVE rank[j] # rank[k]
    OBVIOUS
  <2>1. (j < k \/ k < j) /\ rank[j] \in Int /\ rank[k] \in Int
    BY <1>2
  <2>2. QED
    BY <1>3, <2>1
<1>8. places = 1 .. c
  <2>1. rank \in Surjection(S, places) /\ rank \in Injection(S, places)
    BY <1>4, <1>7 DEF Surjection, Injection, IsInjective
  <2>2. Cardinality(places) = c
    BY <1>0, <2>1, FS_Surjection
  <2>3. IsFiniteSet(1 .. c) /\ Cardinality(1 .. c) = c
    BY FS_Interval
  <2>4. QED
    BY <1>6, <2>2, <2>3, FS_Subset
<1>9. ASSUME NEW n \in 1 .. c PROVE InOrder(S)[n] \in S /\ rank[InOrder(S)[n]] = n
  <2>1. \E k \in S : rank[k] = n
    BY <1>4, <1>8
  <2>2. \E k \in S : Cardinality({j \in S : j <= k}) = n
    BY <1>5, <2>1
  <2>3. /\ InOrder(S)[n] \in S
        /\ Cardinality({j \in S : j <= InOrder(S)[n]}) = n
    BY <1>5, <2>2
  <2>4. QED
    BY <1>5, <2>3
<1>10. \A k \in S : rank[k] \in 1 .. c /\ InOrder(S)[rank[k]] = k
  BY <1>2, <1>7, <1>9
<1>11. ASSUME NEW m \in 1 .. c, NEW n \in 1 .. c, m < n PROVE InOrder(S)[m] < InOrder(S)[n]
  <2>1. PICK i \in S, j \in S : i = InOrder(S)[m] /\ j = InOrder(S)[n] /\ rank[i] = m /\ rank[j] = n
    BY <1>9
  <2>2. i < j \/ j < i \/ i = j
    BY <2>1
  <2>3. QED
    BY <1>3, <1>11, <2>1, <2>2
<1>12. QED
  BY <1>5, <1>9, <1>10, <1>11

\* The median of equals is their value, twice.
LEMMA MedianOfEquals ==
  ASSUME NEW s, NEW n \in Nat \ {0}, NEW x \in Int, s = [k \in 1 .. n |-> x]
  PROVE  TwiceMedian(s) = {2 * x}
<1>1. Len(s) = n /\ DOMAIN s = 1 .. n /\ {s[k] : k \in DOMAIN s} = {x}
  OBVIOUS
<1>2. {k \in DOMAIN s : s[k] < x} = {} /\ {k \in DOMAIN s : s[k] <= x} = 1 .. n
  OBVIOUS
<1>3. Cardinality({k \in DOMAIN s : s[k] < x}) = 0 /\ Cardinality({k \in DOMAIN s : s[k] <= x}) = n
  <2>1. Cardinality({}) = 0 /\ Cardinality(1 .. n) = n
    BY FS_EmptySet, FS_Interval
  <2>2. QED
    BY <1>2, <2>1
<1>4. \A i \in 0 .. n - 1 : Nth(s, i) = x
  <2> SUFFICES ASSUME NEW i \in 0 .. n - 1 PROVE Nth(s, i) = x
    OBVIOUS
  <2>1. 0 <= i /\ i < n
    OBVIOUS
  <2>2. \E v \in {s[k] : k \in DOMAIN s} : /\ Cardinality({k \in DOMAIN s : s[k] < v}) <= i
                                            /\ i < Cardinality({k \in DOMAIN s : s[k] <= v})
    BY <1>1, <1>3, <2>1
  <2>3. Nth(s, i) \in {s[k] : k \in DOMAIN s}
    BY <2>2 DEF Nth
  <2>4. QED
    BY <1>1, <2>3
<1>5. PICK m \in Nat : m = n \div 2 /\ m \in 0 .. n - 1 /\ (n % 2 # 1 => m >= 1) /\ m - 1 <= n - 1
  OBVIOUS
<1>6. TwiceMedian(s) = IF n % 2 = 1 THEN {2 * Nth(s, m)} ELSE {Nth(s, m) + Nth(s, i) : i \in 0 .. m - 1}
  BY <1>1, <1>5 DEF TwiceMedian
<1>7. Nth(s, m) = x /\ \A i \in 0 .. m - 1 : Nth(s, i) = x
  BY <1>4, <1>5
<1>8. QED
  BY <1>5, <1>6, <1>7

-----------------------------------------------------------------------------
\* A crossing is where the signal reached the side of the band it was not on.
Astride(c, s, high, low) ==
  /\ c.at \in 1 .. Len(s) - 1 /\ c.rising \in BOOLEAN
  /\ IF c.rising THEN s[c.at] < high /\ s[c.at + 1] >= high
                 ELSE s[c.at] > low /\ s[c.at + 1] <= low

\* Crossings are found in the order of their samples.
InSequence == \A j, k \in DOMAIN crossings : j < k => crossings[j].at < crossings[k].at

TimingInv == /\ DetectorInv /\ InSequence
             /\ \A k \in DOMAIN crossings : Astride(crossings[k], samples, High, Low)

\* The sample that clears the band is on the other side of it than the one before.
LEMMA CrossingIsAstride ==
  ASSUME DetectorInv, NEW v \in Volts, Read(v), Clears(v)
  PROVE  Astride([at |-> Len(samples), rising |-> ~above], samples', High, Low)
<1>1. TypeOK /\ SideIsTrue /\ above \in BOOLEAN
  BY DEF DetectorInv, TypeOK
<1>2. PICK n \in Nat \ {0} : n = Len(samples)
  BY <1>1, ReadSample
<1>3. /\ v \in Int /\ High \in Int /\ Low \in Int /\ Low < High
      /\ Len(samples') = n + 1 /\ samples'[n + 1] = v
      /\ samples'[n] = samples[n] /\ samples[n] \in Int /\ DOMAIN samples = 1 .. n
  BY <1>1, <1>2, ReadSample, BandIsOpen
<1>4. (above => samples[n] > Low) /\ (~above => samples[n] < High)
  <2>1. CASE Outside(n)
    <3>1. above <=> samples[n] >= High
      BY <1>1, <1>2, <1>3, <2>1 DEF SideIsTrue
    <3>2. QED
      BY <1>3, <3>1
  <2>2. CASE ~Outside(n)
    BY <1>3, <2>2 DEF Outside
  <2>3. QED
    BY <2>1, <2>2
<1>5. IF above THEN v <= Low ELSE v >= High
  BY DEF Clears
<1>6. n \in 1 .. (n + 1) - 1
  BY <1>2
<1> DEFINE c == [at |-> n, rising |-> ~above]
<1>7. c.at = n /\ c.rising = ~above /\ c.rising \in BOOLEAN
  OBVIOUS
<1> HIDE DEF c
<1>8. Astride(c, samples', High, Low)
  BY <1>3, <1>4, <1>5, <1>6, <1>7 DEF Astride
<1>9. QED
  BY <1>2, <1>8 DEF c

\* A crossing that was found stays what it is.
LEMMA AstrideStays ==
  ASSUME TypeOK, NEW v \in Volts, Read(v), NEW c, Astride(c, samples, High, Low)
  PROVE  Astride(c, samples', High, Low) /\ c.at < Len(samples)
<1>1. /\ Len(samples) \in Nat /\ Len(samples') = Len(samples) + 1
      /\ \A i \in 1 .. Len(samples) : samples'[i] = samples[i]
  BY ReadSample
<1>2. c.at \in 1 .. Len(samples) - 1 /\ c.rising \in BOOLEAN
  BY DEF Astride
<1>3. c.at \in 1 .. Len(samples') - 1 /\ c.at < Len(samples)
  BY <1>1, <1>2
<1>4. samples'[c.at] = samples[c.at] /\ samples'[c.at + 1] = samples[c.at + 1]
  BY <1>1, <1>2
<1>5. QED
  BY <1>1, <1>2, <1>3, <1>4 DEF Astride

\* Reading a sample keeps the crossings in sequence, each astride the band.
LEMMA ReadKeepsTiming ==
  ASSUME TimingInv, NEW v \in Volts, Read(v)
  PROVE  TimingInv'
<1>1. DetectorInv /\ TypeOK /\ DetectorInv' /\ above \in BOOLEAN
  BY ReadKeeps DEF TimingInv, DetectorInv, TypeOK
<1>2. PICK n \in Nat \ {0} : n = Len(samples)
  BY <1>1, ReadSample
<1>3. PICK m \in Nat : m = Len(crossings) /\ DOMAIN crossings = 1 .. m
  BY <1>1 DEF TypeOK
<1>4. High' = High /\ Low' = Low
  BY <1>1, ReadSample
<1>5. ASSUME NEW k \in 1 .. m
      PROVE  /\ Astride(crossings[k], samples', High, Low)
             /\ crossings[k].at \in Int /\ crossings[k].at < n
  <2>1. Astride(crossings[k], samples, High, Low)
    BY <1>3 DEF TimingInv
  <2>2. crossings[k].at \in Int
    BY <1>2, <2>1 DEF Astride
  <2>3. QED
    BY <1>1, <1>2, <2>1, <2>2, AstrideStays
<1>6. InSequence /\ \A j, k \in 1 .. m : j < k => crossings[j].at < crossings[k].at
  BY <1>3 DEF TimingInv, InSequence
<1>7. CASE crossings' = crossings
  BY <1>1, <1>3, <1>4, <1>5, <1>6, <1>7 DEF TimingInv, InSequence
<1>8. CASE ~(crossings' = crossings)
  <2> DEFINE c == [at |-> n, rising |-> ~above]
  <2>1. Clears(v) /\ crossings' = Append(crossings, c)
    BY <1>2, <1>8 DEF Read, Cross, Stay
  <2>2. Astride(c, samples', High, Low) /\ c.at = n
    BY <1>1, <1>2, <2>1, CrossingIsAstride
  <2> HIDE DEF c
  <2>3. /\ DOMAIN crossings' = 1 .. m + 1 /\ crossings'[m + 1] = c
        /\ \A k \in 1 .. m : crossings'[k] = crossings[k]
    <3>1. crossings \in Seq([at : Nat \ {0}, rising : BOOLEAN])
      BY <1>1 DEF TypeOK
    <3>2. QED
      BY <1>3, <2>1, <3>1
  <2>4. \A k \in 1 .. m + 1 : k \in 1 .. m \/ k = m + 1
    OBVIOUS
  <2>5. \A k \in 1 .. m + 1 : Astride(crossings'[k], samples', High, Low)
    BY <1>5, <2>2, <2>3, <2>4
  <2>6. \A j, k \in 1 .. m + 1 : j < k => crossings'[j].at < crossings'[k].at
    <3> SUFFICES ASSUME NEW j \in 1 .. m + 1, NEW k \in 1 .. m + 1, j < k
                 PROVE  crossings'[j].at < crossings'[k].at
      OBVIOUS
    <3>1. j \in 1 .. m
      OBVIOUS
    <3>2. CASE k \in 1 .. m
      BY <1>6, <2>3, <3>1, <3>2
    <3>3. CASE k = m + 1
      BY <1>5, <2>2, <2>3, <3>1, <3>3
    <3>4. QED
      BY <2>4, <3>2, <3>3
  <2>7. QED
    BY <1>1, <1>4, <2>3, <2>5, <2>6 DEF TimingInv, InSequence
<1>9. QED
  BY <1>7, <1>8

\* It holds of every record read.
LEMMA TimingInvariant == Spec => []TimingInv
<1>1. Init => TimingInv
  <2> SUFFICES ASSUME Init PROVE TimingInv
    OBVIOUS
  <2>1. DetectorInv /\ DOMAIN crossings = {}
    BY InitDetector DEF Init
  <2>2. QED
    BY <2>1 DEF TimingInv, InSequence
<1>2. TimingInv /\ [Next]_vars => TimingInv'
  <2> SUFFICES ASSUME TimingInv, [Next]_vars PROVE TimingInv'
    OBVIOUS
  <2>1. CASE Next
    BY <2>1, ReadKeepsTiming DEF Next
  <2>2. CASE UNCHANGED vars
    BY <2>2 DEF TimingInv, InSequence, DetectorInv, TypeOK, LastLedHere, EdgesAlternate, SideIsTrue,
                CrossingsWereRead, CrossingsAreExcursions, Excursion, Outside, High, Low, vars
  <2>3. QED
    BY <2>1, <2>2
<1>3. QED
  BY <1>1, <1>2, PTL DEF Spec

-----------------------------------------------------------------------------
\* A part of an interval is less than the interval.
LEMMA PartOf ==
  ASSUME NEW a \in Int, NEW b \in Nat \ {0}, NEW u \in Nat \ {0}, a < b
  PROVE  (a * u) \div b \in Int /\ (a * u) \div b < u
<1>1. PICK x \in Int : x = a * u
  OBVIOUS
<1>2. PICK q \in Int : q = x \div b /\ q * b <= x
  OBVIOUS
<1>3. x < b * u
  BY <1>1
<1>4. q >= u => q * b >= u * b
  BY <1>2
<1>5. u * b = b * u
  OBVIOUS
<1>6. q * b \in Int /\ u * b \in Int
  OBVIOUS
<1>7. q < u
  BY <1>2, <1>3, <1>4, <1>5, <1>6
<1>8. QED
  BY <1>1, <1>2, <1>7

\* What is known of a crossing, in numbers.
LEMMA CrossingIs ==
  ASSUME TimingInv, NEW k \in DOMAIN crossings
  PROVE  /\ crossings[k].at \in 1 .. Len(samples) - 1 /\ crossings[k].rising \in BOOLEAN
         /\ samples[crossings[k].at] \in Int /\ samples[crossings[k].at + 1] \in Int
         /\ threshold.level \in Int /\ Unit \in Nat \ {0} /\ k \in Nat \ {0}
         /\ IF crossings[k].rising
              THEN /\ samples[crossings[k].at] < samples[crossings[k].at + 1]
                   /\ threshold.level < samples[crossings[k].at + 1]
              ELSE /\ samples[crossings[k].at] > samples[crossings[k].at + 1]
                   /\ threshold.level > samples[crossings[k].at + 1]
<1>1. TypeOK
  BY DEF TimingInv, DetectorInv
<1>2. Astride(crossings[k], samples, High, Low)
  BY DEF TimingInv
<1>3. PICK at \in Int : at = crossings[k].at
  BY <1>2 DEF Astride
<1>4. samples \in Seq(Int)
  BY <1>1, RecordKept DEF IsRecord
<1>5. Len(samples) \in Nat /\ \A i \in 1 .. Len(samples) : samples[i] \in Int
  BY <1>4
<1>6. at \in 1 .. Len(samples) - 1
  BY <1>2, <1>3 DEF Astride
<1>7. at \in 1 .. Len(samples) /\ at + 1 \in 1 .. Len(samples)
  BY <1>5, <1>6
<1>8. samples[at] \in Int /\ samples[at + 1] \in Int
  BY <1>5, <1>7
<1>9. /\ High \in Int /\ Low \in Int /\ threshold.level \in Int
      /\ Low < threshold.level /\ threshold.level < High
  BY <1>1, BandIsOpen DEF TypeOK
<1>10. k \in Nat \ {0}
  BY <1>1 DEF TypeOK
<1>11. QED
  BY <1>2, <1>3, <1>6, <1>8, <1>9, <1>10, MeasurementAssumption DEF Astride

\* A crossing is over before the sample that completes it.
LEMMA CrossedBefore ==
  ASSUME TimingInv, NEW k \in DOMAIN crossings
  PROVE  Crossed(k) \in Int /\ Crossed(k) < crossings[k].at * Unit
<1>1. PICK at \in Int : at = crossings[k].at
  BY CrossingIs
<1>2. PICK x \in Int, y \in Int, l \in Int, u \in Nat \ {0} :
         x = samples[at] /\ y = samples[at + 1] /\ l = threshold.level /\ u = Unit
  BY <1>1, CrossingIs
<1>3. (x < y /\ l < y) \/ (x > y /\ l > y)
  BY <1>1, <1>2, CrossingIs
<1>4. (at - 1) + 1 = at
  OBVIOUS
<1>5. Crossed(k) = (at - 1) * u + (IF x < y THEN ((l - x) * u) \div (y - x)
                                            ELSE ((x - l) * u) \div (x - y))
  BY <1>1, <1>2, <1>4 DEF Crossed, TimeAt, Sample
<1>6. PICK q \in Int : Crossed(k) = (at - 1) * u + q /\ q < u
  <2>1. CASE x < y
    <3>1. y - x \in Nat \ {0} /\ l - x \in Int /\ l - x < y - x
      BY <1>3, <2>1
    <3>2. ((l - x) * u) \div (y - x) \in Int /\ ((l - x) * u) \div (y - x) < u
      BY <3>1, PartOf
    <3>3. QED
      BY <1>5, <2>1, <3>2
  <2>2. CASE ~(x < y)
    <3>1. x - y \in Nat \ {0} /\ x - l \in Int /\ x - l < x - y
      BY <1>3, <2>2
    <3>2. ((x - l) * u) \div (x - y) \in Int /\ ((x - l) * u) \div (x - y) < u
      BY <3>1, PartOf
    <3>3. QED
      BY <1>5, <2>2, <3>2
  <2>3. QED
    BY <2>1, <2>2
<1>7. (at - 1) * u = at * u - u /\ at * u \in Int
  OBVIOUS
<1>8. Crossed(k) \in Int /\ Crossed(k) < at * u
  BY <1>6, <1>7
<1>9. QED
  BY <1>1, <1>2, <1>8

\* Two crossings of one shape, T samples apart, are T intervals apart.
LEMMA CrossedAgain ==
  ASSUME TimingInv, NEW T \in Nat \ {0}, NEW j \in DOMAIN crossings, NEW k \in DOMAIN crossings,
         \A i \in T + 1 .. Len(samples) : samples[i] = samples[i - T],
         crossings[k].at = crossings[j].at + T
  PROVE  Crossed(k) = Crossed(j) + T * Unit
<1>1. PICK at \in Int : at = crossings[j].at /\ at \in 1 .. Len(samples) - 1
  BY CrossingIs
<1>2. crossings[k].at = at + T /\ at + T \in 1 .. Len(samples) - 1
  BY <1>1, CrossingIs
<1>3. Len(samples) \in Nat
  BY RecordKept DEF TimingInv, DetectorInv, IsRecord
<1>4. /\ samples[at + T] = samples[at]
      /\ samples[at + T + 1] = samples[at + 1]
  <2>1. /\ at + T \in T + 1 .. Len(samples) /\ at + T + 1 \in T + 1 .. Len(samples)
        /\ (at + T) - T = at /\ (at + T + 1) - T = at + 1
    BY <1>1, <1>2, <1>3
  <2>2. QED
    BY <2>1
<1>5. (at - 1) + 1 = at /\ ((at + T) - 1) + 1 = at + T
  OBVIOUS
<1> DEFINE q == IF samples[at] < samples[at + 1]
                  THEN ((threshold.level - samples[at]) * Unit) \div (samples[at + 1] - samples[at])
                  ELSE ((samples[at] - threshold.level) * Unit) \div (samples[at] - samples[at + 1])
<1>6. Crossed(j) = (at - 1) * Unit + q /\ Crossed(k) = ((at + T) - 1) * Unit + q
  BY <1>1, <1>2, <1>4, <1>5 DEF Crossed, TimeAt, Sample
<1>7. q \in Int
  <2>1. PICK x \in Int, y \in Int, l \in Int, u \in Nat \ {0} :
           x = samples[at] /\ y = samples[at + 1] /\ l = threshold.level /\ u = Unit /\ x # y
    <3>1. /\ samples[at] \in Int /\ samples[at + 1] \in Int /\ samples[at] # samples[at + 1]
          /\ threshold.level \in Int /\ Unit \in Nat \ {0}
      <4>1. /\ samples[crossings[j].at] \in Int /\ samples[crossings[j].at + 1] \in Int
            /\ threshold.level \in Int /\ Unit \in Nat \ {0}
            /\ \/ samples[crossings[j].at] < samples[crossings[j].at + 1]
               \/ samples[crossings[j].at] > samples[crossings[j].at + 1]
        BY CrossingIs
      <4>2. QED
        BY <1>1, <4>1
    <3>2. QED
      BY <3>1
  <2>2. CASE x < y
    <3>1. y - x \in Nat \ {0} /\ (l - x) * u \in Int
      BY <2>2
    <3>2. ((l - x) * u) \div (y - x) \in Int
      BY <3>1
    <3>3. QED
      BY <2>1, <2>2, <3>2
  <2>3. CASE ~(x < y)
    <3>1. x # y
      BY <2>1
    <3>2. x - y \in Nat \ {0} /\ (x - l) * u \in Int
      BY <2>3, <3>1
    <3>3. ((x - l) * u) \div (x - y) \in Int
      BY <3>2
    <3>4. QED
      BY <2>1, <2>3, <3>3
  <2>4. QED
    BY <2>2, <2>3
<1> HIDE DEF q
<1>8. Unit \in Int
  BY MeasurementAssumption
<1>9. ((at + T) - 1) * Unit = (at - 1) * Unit + T * Unit /\ (at - 1) * Unit \in Int /\ T * Unit \in Int
  BY <1>8
<1>10. QED
  BY <1>6, <1>7, <1>9

-----------------------------------------------------------------------------
\* c edges of one direction, every second crossing.
EdgesOf(r, c) ==
  /\ DOMAIN Edges(r) = 1 .. c
  /\ \A n \in 1 .. c : /\ Edges(r)[n] \in DOMAIN crossings
                      /\ crossings[Edges(r)[n]].rising = r
  /\ \A m, n \in 1 .. c : m < n => Edges(r)[m] < Edges(r)[n]
  /\ \A k \in DOMAIN crossings : crossings[k].rising = r => \E n \in 1 .. c : Edges(r)[n] = k
  /\ \A n \in 1 .. c : n + 1 \in 1 .. c => Edges(r)[n + 1] = Edges(r)[n] + 2

\* The edges of one direction are.
LEMMA EdgesAre ==
  ASSUME TimingInv, NEW r \in BOOLEAN
  PROVE  \E c \in Nat : EdgesOf(r, c)
<1>1. PICK m \in Nat : m = Len(crossings) /\ DOMAIN crossings = 1 .. m
  BY DEF TimingInv, DetectorInv, TypeOK
<1> DEFINE S == {k \in 1 .. m : crossings[k].rising = r}
<1>2. S \in SUBSET (1 .. m) /\ Edges(r) = InOrder(S)
  BY <1>1 DEF Edges
<1>3. \A k \in 1 .. m : k \in S <=> crossings[k].rising = r
  OBVIOUS
<1> HIDE DEF S
<1>4. PICK c \in Nat :
        /\ DOMAIN Edges(r) = 1 .. c
        /\ \A n \in 1 .. c : Edges(r)[n] \in S
        /\ \A i, n \in 1 .. c : i < n => Edges(r)[i] < Edges(r)[n]
        /\ \A k \in S : \E n \in 1 .. c : Edges(r)[n] = k
  <2>1. /\ Cardinality(S) \in Nat /\ DOMAIN InOrder(S) = 1 .. Cardinality(S)
        /\ \A n \in 1 .. Cardinality(S) : InOrder(S)[n] \in S
        /\ \A i, n \in 1 .. Cardinality(S) : i < n => InOrder(S)[i] < InOrder(S)[n]
        /\ \A k \in S : \E n \in 1 .. Cardinality(S) : InOrder(S)[n] = k
    BY <1>2, InOrderIs
  <2> DEFINE Enumerates(e, c) == /\ DOMAIN e = 1 .. c
                                 /\ \A n \in 1 .. c : e[n] \in S
                                 /\ \A i, n \in 1 .. c : i < n => e[i] < e[n]
                                 /\ \A k \in S : \E n \in 1 .. c : e[n] = k
  <2>2. Enumerates(InOrder(S), Cardinality(S))
    BY <2>1
  <2>3. \E c \in Nat : Enumerates(Edges(r), c)
    <3> HIDE DEF Enumerates
    <3>1. QED
      BY <1>2, <2>1, <2>2
  <2>4. QED
    BY <2>3
<1>5. \A k \in 1 .. m : k + 1 \in 1 .. m => (k \in S <=> k + 1 \notin S)
  <2> SUFFICES ASSUME NEW k \in 1 .. m, k + 1 \in 1 .. m PROVE k \in S <=> k + 1 \notin S
    OBVIOUS
  <2>1. k \in 1 .. m - 1
    OBVIOUS
  <2>2. crossings[k].rising # crossings[k + 1].rising
    BY <1>1, <2>1 DEF TimingInv, DetectorInv, EdgesAlternate
  <2>3. crossings[k].rising \in BOOLEAN /\ crossings[k + 1].rising \in BOOLEAN
    BY <1>1, CrossingIs
  <2>4. QED
    BY <1>3, <2>2, <2>3
<1>6. ASSUME NEW n \in 1 .. c, n + 1 \in 1 .. c PROVE Edges(r)[n + 1] = Edges(r)[n] + 2
  <2>1. PICK j \in 1 .. m, k \in 1 .. m : /\ j = Edges(r)[n] /\ k = Edges(r)[n + 1]
                                        /\ j \in S /\ k \in S /\ j < k
    <3>1. Edges(r)[n] \in S /\ Edges(r)[n + 1] \in S /\ n < n + 1
      BY <1>4, <1>6
    <3>2. Edges(r)[n] < Edges(r)[n + 1]
      BY <1>4, <1>6, <3>1
    <3>3. QED
      BY <1>2, <3>1, <3>2
  <2>2. k >= j + 2
    <3>1. j + 1 \in 1 .. m
      BY <2>1
    <3>2. k # j + 1
      BY <1>5, <2>1, <3>1
    <3>3. QED
      BY <2>1, <3>2
  <2>3. j + 1 \in 1 .. m /\ j + 2 \in 1 .. m /\ (j + 1) + 1 = j + 2
    BY <2>1, <2>2
  <2>4. j + 2 \in S
    BY <1>5, <2>1, <2>3
  <2>5. PICK i \in 1 .. c : Edges(r)[i] = j + 2
    BY <1>4, <2>4
  <2>6. i > n
    <3>1. i <= n => Edges(r)[i] <= Edges(r)[n]
      <4>1. i < n => Edges(r)[i] < Edges(r)[n]
        BY <1>4
      <4>2. i <= n => i = n \/ i < n
        OBVIOUS
      <4>3. QED
        BY <2>1, <2>5, <4>1, <4>2
    <3>2. QED
      BY <2>1, <2>5, <3>1
  <2>7. i = n + 1 \/ n + 1 < i
    BY <2>6
  <2>8. n + 1 < i => k < j + 2
    BY <1>4, <1>6, <2>1, <2>5
  <2>9. QED
    BY <2>1, <2>2, <2>5, <2>7, <2>8
<1>7. EdgesOf(r, c)
  <2>1. \A n \in 1 .. c : Edges(r)[n] \in DOMAIN crossings /\ crossings[Edges(r)[n]].rising = r
    BY <1>1, <1>2, <1>3, <1>4
  <2>2. \A k \in DOMAIN crossings : crossings[k].rising = r => \E n \in 1 .. c : Edges(r)[n] = k
    BY <1>1, <1>3, <1>4
  <2>3. \A n \in 1 .. c : n + 1 \in 1 .. c => Edges(r)[n + 1] = Edges(r)[n] + 2
    BY <1>6
  <2>4. QED
    BY <1>4, <2>1, <2>2, <2>3 DEF EdgesOf
<1>8. QED
  BY <1>7

\* In a record that repeats itself, the gaps between edges of one direction are
\* all of T intervals.
LEMMA GapsAreEqual ==
  ASSUME TimingInv, NEW r \in BOOLEAN, NEW T \in Nat \ {0}, Repeats(T), Len(Times(r)) >= 2
  PROVE  \E n \in Nat \ {0} : Gaps(Times(r)) = [k \in 1 .. n |-> T * Unit]
<1> PICK c \in Nat : EdgesOf(r, c)
  BY EdgesAre
<1>1. /\ DOMAIN Edges(r) = 1 .. c
      /\ \A n \in 1 .. c : Edges(r)[n] \in DOMAIN crossings
      /\ \A n \in 1 .. c : n + 1 \in 1 .. c => Edges(r)[n + 1] = Edges(r)[n] + 2
  BY DEF EdgesOf
<1>2. Times(r) = [n \in 1 .. c |-> Crossed(Edges(r)[n])] /\ Len(Times(r)) = c /\ c >= 2
  BY <1>1 DEF Times
<1>3. PICK m \in Nat : m = Len(crossings) /\ DOMAIN crossings = 1 .. m
  BY DEF TimingInv, DetectorInv, TypeOK
<1>4. ASSUME NEW n \in 1 .. c - 1 PROVE Times(r)[n + 1] - Times(r)[n] = T * Unit
  <2>0. n \in 1 .. c /\ n + 1 \in 1 .. c
    BY <1>2
  <2>1. PICK j \in 1 .. m : j = Edges(r)[n] /\ j + 2 = Edges(r)[n + 1] /\ j + 2 \in 1 .. m
    BY <1>1, <1>3, <2>0
  <2>2. j \in 1 .. m - 2 /\ crossings[j].at \in Int /\ crossings[j + 2].at \in Int
    <3>1. j \in DOMAIN crossings /\ j + 2 \in DOMAIN crossings
      BY <1>3, <2>1
    <3>2. crossings[j].at \in Int /\ crossings[j + 2].at \in Int
      BY <3>1, CrossingIs
    <3>3. j \in 1 .. m - 2
      BY <2>1
    <3>4. QED
      BY <3>2, <3>3
  <2>3. crossings[j + 2].at = crossings[j].at + T
    BY <1>3, <2>2 DEF Repeats
  <2>4. Crossed(j + 2) = Crossed(j) + T * Unit
    BY <1>3, <2>1, <2>3, CrossedAgain DEF Repeats
  <2>5. Times(r)[n] = Crossed(j) /\ Times(r)[n + 1] = Crossed(j + 2)
    BY <1>2, <2>0, <2>1
  <2>6. Crossed(j) \in Int /\ T * Unit \in Int
    BY <1>3, <2>1, CrossedBefore, MeasurementAssumption
  <2>7. QED
    BY <2>4, <2>5, <2>6
<1>5. Gaps(Times(r)) = [k \in 1 .. c - 1 |-> Times(r)[k + 1] - Times(r)[k]]
  BY <1>2 DEF Gaps
<1>6. c - 1 \in Nat \ {0}
  BY <1>2
<1>7. QED
  BY <1>4, <1>5, <1>6

\* The period of a record that repeats itself.
LEMMA PeriodIs ==
  ASSUME TimingInv, NEW T \in Nat \ {0}, Repeats(T), Len(Reference) >= 2
  PROVE  Periods = {2 * T * Unit}
<1>1. PICK r \in BOOLEAN : Reference = Times(r)
  BY DEF Reference
<1>2. PICK x \in Nat \ {0} : x = T * Unit /\ 2 * T * Unit = 2 * x
  BY MeasurementAssumption
<1>3. PICK n \in Nat \ {0} : Gaps(Reference) = [k \in 1 .. n |-> x]
  BY <1>1, <1>2, GapsAreEqual
<1>4. TwiceMedian(Gaps(Reference)) = {2 * x}
  <2>1. x \in Int
    OBVIOUS
  <2>2. QED
    BY <1>3, <2>1, MedianOfEquals
<1>5. \E e \in Nat : Len(Times(r)) = e
  BY EdgesAre DEF Times, EdgesOf
<1>6. ~(Len(Reference) < 2)
  BY <1>1, <1>5
<1>7. QED
  BY <1>2, <1>4, <1>6 DEF Periods

-----------------------------------------------------------------------------
\* Crossings that lie between their samples follow each other in time.
LEMMA CrossedInOrder ==
  ASSUME TimingInv, Bracketed, NEW j \in DOMAIN crossings, NEW k \in DOMAIN crossings, j < k
  PROVE  Crossed(j) < Crossed(k) /\ Crossed(j) \in Int /\ Crossed(k) \in Int
<1>1. PICK a \in Int, b \in Int : a = crossings[j].at /\ b = crossings[k].at /\ a < b
  <2>1. crossings[j].at \in Int /\ crossings[k].at \in Int
    BY CrossingIs
  <2>2. crossings[j].at < crossings[k].at
    BY DEF TimingInv, InSequence
  <2>3. QED
    BY <2>1, <2>2
<1>2. PICK u \in Nat \ {0} : u = Unit
  BY MeasurementAssumption
<1>3. PICK x \in Int, y \in Int : x = Crossed(j) /\ y = Crossed(k) /\ x < a * u /\ (b - 1) * u <= y
  <2>1. Crossed(j) \in Int /\ Crossed(k) \in Int /\ Crossed(j) < a * u
    BY <1>1, <1>2, CrossedBefore
  <2>2. (b - 1) * u <= Crossed(k)
    BY <1>1, <1>2 DEF Bracketed
  <2>3. QED
    BY <2>1, <2>2
<1>4. a * u <= (b - 1) * u
  BY <1>1
<1>5. a * u \in Int /\ (b - 1) * u \in Int
  OBVIOUS
<1>6. QED
  BY <1>3, <1>4, <1>5

\* A set of places has a first one.
LEMMA FirstPlace ==
  ASSUME NEW S, S \subseteq Nat, S # {}
  PROVE  Min(S) \in S /\ \A i \in S : Min(S) <= i
<1> DEFINE R == OpToRel(<, Nat)
<1>1. R = {ss \in Nat \X Nat : ss[1] < ss[2]}
  BY DEF OpToRel
<1>2. IsWellFoundedOn(R, Nat)
  BY NatLessThanWellFounded
<1> HIDE DEF R
<1>3. PICK n \in S : \A i \in S : ~ (<<i, n>> \in R)
  BY <1>2, WFMin
<1>4. ASSUME NEW i \in S PROVE n <= i
  <2>1. n \in Nat /\ i \in Nat /\ ~ (<<i, n>> \in R)
    BY <1>3
  <2>2. i < n => <<i, n>> \in R
    BY <1>1, <2>1
  <2>3. QED
    BY <2>1, <2>2
<1>5. \E x \in S : \A y \in S : x <= y
  BY <1>4
<1>6. QED
  BY <1>5 DEF Min

\* The next crossing the other way is the one after.
LEMMA NextIs ==
  ASSUME TimingInv, Bracketed, NEW k \in DOMAIN crossings, NEW r \in BOOLEAN, crossings[k].rising # r,
         NEW next, next = {n \in DOMAIN Times(r) : Times(r)[n] > Crossed(k)}
  PROVE  IF k + 1 \in DOMAIN crossings THEN next # {} /\ Times(r)[Min(next)] = Crossed(k + 1)
         ELSE next = {}
<1>1. PICK m \in Nat : m = Len(crossings) /\ DOMAIN crossings = 1 .. m
  BY DEF TimingInv, DetectorInv, TypeOK
<1> PICK c \in Nat : EdgesOf(r, c)
  BY EdgesAre
<1>2. /\ DOMAIN Edges(r) = 1 .. c
      /\ \A n \in 1 .. c : Edges(r)[n] \in 1 .. m /\ crossings[Edges(r)[n]].rising = r
      /\ \A i, n \in 1 .. c : i < n => Edges(r)[i] < Edges(r)[n]
      /\ \A i \in 1 .. m : crossings[i].rising = r => \E n \in 1 .. c : Edges(r)[n] = i
  BY <1>1 DEF EdgesOf
<1> PICK falls : falls = Times(r)
  OBVIOUS
<1>3. DOMAIN falls = 1 .. c /\ Len(falls) = c /\ \A n \in 1 .. c : falls[n] = Crossed(Edges(r)[n])
  <2>1. falls = [n \in 1 .. c |-> Crossed(Edges(r)[n])]
    BY <1>2 DEF Times
  <2>2. QED
    BY <2>1
<1>4. \A i, j \in 1 .. m : i < j => Crossed(i) < Crossed(j) /\ Crossed(i) \in Int /\ Crossed(j) \in Int
  BY <1>1, CrossedInOrder
<1>5. Crossed(k) \in Int
  BY CrossedBefore
<1>6. ASSUME NEW n \in 1 .. c PROVE falls[n] > Crossed(k) <=> Edges(r)[n] > k
  <2>1. PICK i \in 1 .. m : i = Edges(r)[n] /\ crossings[i].rising = r /\ falls[n] = Crossed(i)
    BY <1>2, <1>3
  <2>2. i # k /\ k \in 1 .. m
    BY <1>1, <2>1
  <2>3. CASE i < k
    BY <1>4, <2>1, <2>2, <2>3
  <2>4. CASE k < i
    BY <1>4, <2>1, <2>2, <2>4
  <2>5. QED
    BY <2>2, <2>3, <2>4
<1>7. /\ next \in SUBSET (1 .. c) /\ \A n \in 1 .. c : n \in next <=> Edges(r)[n] > k
      /\ next # {} => Min(next) \in next /\ \A n \in next : Min(next) <= n
  <2>1. next \in SUBSET (1 .. c) /\ \A n \in 1 .. c : n \in next <=> falls[n] > Crossed(k)
    BY <1>3
  <2>2. next \subseteq Nat
    BY <2>1
  <2>3. next # {} => Min(next) \in next /\ \A n \in next : Min(next) <= n
    BY <2>2, FirstPlace
  <2>4. QED
    BY <1>6, <2>1, <2>3
<1>8. CASE k + 1 \in 1 .. m
  <2>1. crossings[k + 1].rising = r
    <3>1. k \in 1 .. Len(crossings) - 1
      BY <1>1, <1>8
    <3>2. crossings[k].rising # crossings[k + 1].rising
      BY <3>1 DEF TimingInv, DetectorInv, EdgesAlternate
    <3>3. crossings[k].rising \in BOOLEAN /\ crossings[k + 1].rising \in BOOLEAN
      BY <1>1, <1>8, CrossingIs
    <3>4. QED
      BY <3>2, <3>3
  <2>2. PICK n \in 1 .. c : Edges(r)[n] = k + 1
    BY <1>2, <1>8, <2>1
  <2>3. n \in next
    BY <1>1, <1>7, <1>8, <2>2
  <2>4. PICK p \in next : p = Min(next) /\ p \in 1 .. c /\ p <= n /\ Edges(r)[p] > k
    BY <1>7, <2>3
  <2>5. p = n
    <3>1. p < n => Edges(r)[p] < k + 1
      BY <1>2, <2>2, <2>4
    <3>2. Edges(r)[p] \in 1 .. m
      BY <1>2, <2>4
    <3>3. QED
      BY <1>1, <2>4, <3>1, <3>2
  <2>6. Times(r)[Min(next)] = Crossed(k + 1)
    BY <1>3, <2>2, <2>4, <2>5
  <2>7. QED
    BY <1>1, <1>8, <2>3, <2>6
<1>9. CASE k + 1 \notin 1 .. m
  <2>1. \A n \in 1 .. c : ~(Edges(r)[n] > k)
    BY <1>1, <1>2, <1>9
  <2>2. QED
    BY <1>1, <1>7, <1>9, <2>1
<1>10. QED
  BY <1>8, <1>9

\* The high times of the cycles of a record that repeats itself are all the same.
LEMMA CyclesAgree ==
  ASSUME TimingInv, NEW T \in Nat \ {0}, Repeats(T)
  PROVE  \E h \in Int : \A k \in DOMAIN crossings :
           k + 1 \in DOMAIN crossings /\ crossings[k].rising => Crossed(k + 1) - Crossed(k) = h
<1>1. PICK m \in Nat : m = Len(crossings) /\ DOMAIN crossings = 1 .. m
  BY DEF TimingInv, DetectorInv, TypeOK
<1> PICK r \in BOOLEAN : r = TRUE
  OBVIOUS
<1> PICK c \in Nat : EdgesOf(r, c)
  BY EdgesAre
<1>2. /\ \A n \in 1 .. c : Edges(r)[n] \in 1 .. m
      /\ \A k \in 1 .. m : crossings[k].rising = r => \E n \in 1 .. c : Edges(r)[n] = k
      /\ \A n \in 1 .. c : n + 1 \in 1 .. c => Edges(r)[n + 1] = Edges(r)[n] + 2
  BY <1>1 DEF EdgesOf
<1>3. \A k \in 1 .. m : Crossed(k) \in Int
  BY <1>1, CrossedBefore
<1>4. ASSUME NEW k \in 1 .. m, k + 2 \in 1 .. m PROVE Crossed(k + 2) = Crossed(k) + T * Unit
  <2>1. k \in 1 .. m - 2
    BY <1>4
  <2>2. crossings[k].at \in Int /\ crossings[k + 2].at \in Int
    BY <1>1, <1>4, CrossingIs
  <2>3. crossings[k + 2].at = crossings[k].at + T
    BY <1>1, <2>1, <2>2 DEF Repeats
  <2>4. QED
    BY <1>1, <1>4, <2>3, CrossedAgain DEF Repeats
<1>5. T * Unit \in Int
  BY MeasurementAssumption
<1> DEFINE High1(k) == Crossed(k + 1) - Crossed(k)
<1>6. ASSUME NEW k \in 1 .. m, k + 3 \in 1 .. m PROVE High1(k + 2) = High1(k)
  <2>1. k + 1 \in 1 .. m /\ k + 2 \in 1 .. m /\ (k + 1) + 2 = k + 3 /\ (k + 2) + 1 = k + 3
    BY <1>6
  <2>2. Crossed(k + 2) = Crossed(k) + T * Unit /\ Crossed(k + 3) = Crossed(k + 1) + T * Unit
    BY <1>4, <1>6, <2>1
  <2>3. QED
    BY <1>3, <1>5, <2>1, <2>2
<1> HIDE DEF High1
<1> DEFINE Same(n) == n + 1 \in 1 .. c /\ Edges(r)[n + 1] + 1 \in 1 .. m
                       => High1(Edges(r)[n + 1]) = High1(Edges(r)[1])
           Agree == {n \in Nat : Same(n)}
<1>7. \A n \in Nat : Same(n)
  <2>1. 0 \in Agree
    OBVIOUS
  <2>2. ASSUME NEW n \in Nat, n \in Agree PROVE n + 1 \in Agree
    <3>1. ASSUME (n + 1) + 1 \in 1 .. c, Edges(r)[(n + 1) + 1] + 1 \in 1 .. m
          PROVE  High1(Edges(r)[(n + 1) + 1]) = High1(Edges(r)[1])
      <4>1. n + 1 \in 1 .. c
        BY <3>1
      <4>2. PICK k \in 1 .. m : k = Edges(r)[n + 1] /\ Edges(r)[(n + 1) + 1] = k + 2
        BY <1>1, <1>2, <3>1, <4>1
      <4>3. k + 3 \in 1 .. m /\ k + 1 \in 1 .. m
        <5>1. (k + 2) + 1 \in 1 .. m
          BY <3>1, <4>2
        <5>2. QED
          BY <5>1
      <4>4. High1(k) = High1(Edges(r)[1])
        BY <2>2, <4>1, <4>2, <4>3
      <4>5. High1(k + 2) = High1(k)
        BY <1>6, <4>3
      <4>6. QED
        BY <4>2, <4>4, <4>5
    <3>2. Same(n + 1)
      BY <3>1
    <3> HIDE DEF Same
    <3>3. QED
      BY <3>2
  <2> HIDE DEF Agree
  <2>3. \A n \in Nat : n \in Agree
    BY <2>1, <2>2, AllNaturals
  <2>4. QED
    BY <2>3 DEF Agree
<1>8. ASSUME NEW k \in 1 .. m, k + 1 \in 1 .. m, crossings[k].rising = r
      PROVE  High1(k) = High1(Edges(r)[1]) /\ High1(k) \in Int
  <2>1. PICK n \in 1 .. c : Edges(r)[n] = k
    BY <1>1, <1>2, <1>8
  <2>2. n - 1 \in Nat /\ (n - 1) + 1 = n
    OBVIOUS
  <2>3. Same(n - 1)
    BY <1>7, <2>2
  <2>4. High1(k) = High1(Edges(r)[1])
    BY <1>8, <2>1, <2>2, <2>3
  <2>5. High1(k) \in Int
    <3>1. Crossed(k) \in Int /\ Crossed(k + 1) \in Int
      BY <1>3, <1>8
    <3>2. QED
      BY <3>1 DEF High1
  <2>6. QED
    BY <2>4, <2>5
<1> PICK e : e = High1(Edges(r)[1])
  OBVIOUS
<1>9. \E h \in Int : e \in Int => h = e
  <2>1. CASE e \in Int
    BY <2>1
  <2>2. CASE e \notin Int
    <3>1. 0 \in Int
      OBVIOUS
    <3>2. QED
      BY <2>2, <3>1
  <2>3. QED
    BY <2>1, <2>2
<1> PICK h \in Int : e \in Int => h = e
  BY <1>9
<1>10. \A k \in DOMAIN crossings :
         k + 1 \in DOMAIN crossings /\ crossings[k].rising => Crossed(k + 1) - Crossed(k) = h
  <2>1. \A k \in 1 .. m : crossings[k].rising => crossings[k].rising = r
    BY <1>1, CrossingIs
  <2>2. QED
    BY <1>1, <1>8, <2>1 DEF High1
<1>11. QED
  BY <1>10

\* The high times that a duty cycle is taken from are those of cycles.
LEMMA HighTimesAre ==
  ASSUME TimingInv, Bracketed, NEW p, NEW h \in Int,
         \A k \in DOMAIN crossings :
           k + 1 \in DOMAIN crossings /\ crossings[k].rising => Crossed(k + 1) - Crossed(k) = h
  PROVE  \E n \in Nat : HighTimes(p) = [i \in 1 .. n |-> h]
<1> DEFINE falls   == Times(FALSE)
           rises   == Times(TRUE)
           next(t) == {n \in DOMAIN falls : falls[n] > t}
           high(t) == IF next(t) = {} THEN 0 ELSE falls[Min(next(t))] - t
           highs   == [n \in DOMAIN rises |-> high(rises[n])]
           S       == {k \in DOMAIN highs : highs[k] > 0 /\ 2 * highs[k] < p}
           kept    == InOrder(S)
<1>1. HighTimes(p) = [n \in DOMAIN kept |-> highs[kept[n]]]
  BY DEF HighTimes
<1> HIDE DEF falls, rises
<1> PICK up \in BOOLEAN, down \in BOOLEAN :
      up = TRUE /\ down = FALSE /\ falls = Times(down) /\ rises = Times(up)
  BY DEF falls, rises
<1> PICK c \in Nat : EdgesOf(up, c)
  BY EdgesAre
<1>2. /\ DOMAIN Edges(up) = 1 .. c
      /\ \A n \in 1 .. c : /\ Edges(up)[n] \in DOMAIN crossings
                          /\ crossings[Edges(up)[n]].rising = up
  BY DEF EdgesOf
<1>3. rises = [n \in 1 .. c |-> Crossed(Edges(up)[n])] /\ DOMAIN highs = 1 .. c
  BY <1>2 DEF Times
<1>4. ASSUME NEW n \in 1 .. c PROVE highs[n] = 0 \/ highs[n] = h
  <2>1. PICK k \in DOMAIN crossings : k = Edges(up)[n] /\ crossings[k].rising = up
    BY <1>2
  <2>2. rises[n] = Crossed(k) /\ highs[n] = high(Crossed(k)) /\ crossings[k].rising # down
    BY <1>3, <2>1
  <2>3. IF k + 1 \in DOMAIN crossings
          THEN next(Crossed(k)) # {} /\ falls[Min(next(Crossed(k)))] = Crossed(k + 1)
          ELSE next(Crossed(k)) = {}
    BY <2>2, NextIs
  <2> HIDE DEF next
  <2>4. QED
    BY <2>1, <2>2, <2>3
<1> HIDE DEF highs
<1>5. S \in SUBSET (1 .. c) /\ \A k \in S : highs[k] = h
  <2>1. \A k \in S : k \in 1 .. c /\ highs[k] > 0
    BY <1>3
  <2>2. QED
    BY <1>4, <2>1
<1> HIDE DEF S
<1>6. /\ Cardinality(S) \in Nat /\ DOMAIN kept = 1 .. Cardinality(S)
      /\ \A n \in 1 .. Cardinality(S) : kept[n] \in S
  BY <1>5, InOrderIs
<1> HIDE DEF kept
<1>7. HighTimes(p) = [i \in 1 .. Cardinality(S) |-> h]
  BY <1>1, <1>5, <1>6
<1>8. QED
  BY <1>6, <1>7

-----------------------------------------------------------------------------
\* measureAll(): a record that repeats itself every T samples, and rises once in
\* that time, has the period T, whatever its levels and its noise; and the high time
\* of each of its cycles is the one its duty cycle is computed from, where no
\* crossing is timed outside the two samples around it.
THEOREM TimingPeriodicIsMeasured == Spec => []PeriodicIsMeasured
<1>1. ASSUME TimingInv, NEW T \in Nat \ {0}, Repeats(T), Len(Reference) >= 2, Bracketed
      PROVE  \A h \in Highs(2 * T * Unit) : \A k \in 1 .. Len(crossings) - 1 :
               crossings[k].rising => h = 2 * (Crossed(k + 1) - Crossed(k))
  <2>1. PICK h \in Int : \A k \in DOMAIN crossings :
           k + 1 \in DOMAIN crossings /\ crossings[k].rising => Crossed(k + 1) - Crossed(k) = h
    BY <1>1, CyclesAgree
  <2> DEFINE p == 2 * T * Unit
  <2> HIDE DEF p
  <2>2. PICK n \in Nat : HighTimes(p) = [i \in 1 .. n |-> h]
    BY <1>1, <2>1, HighTimesAre
  <2>3. n # 0 => TwiceMedian(HighTimes(p)) = {2 * h}
    BY <2>2, MedianOfEquals
  <2>4. Highs(p) \subseteq {2 * h}
    <3>1. n = 0 => HighTimes(p) = <<>>
      BY <2>2
    <3>2. QED
      BY <2>3, <3>1 DEF Highs
  <2>5. PICK m \in Nat : m = Len(crossings) /\ DOMAIN crossings = 1 .. m
    BY <1>1 DEF TimingInv, DetectorInv, TypeOK
  <2>6. \A k \in 1 .. Len(crossings) - 1 : crossings[k].rising => Crossed(k + 1) - Crossed(k) = h
    BY <2>1, <2>5
  <2>7. QED
    BY <2>4, <2>6 DEF p
<1>2. TimingInv => PeriodicIsMeasured
  <2> SUFFICES ASSUME TimingInv, NEW T \in 1 .. Len(samples) \div 2,
                      Repeats(T), Len(Reference) >= 2
               PROVE  /\ Periods = {2 * T * Unit}
                      /\ Bracketed =>
                           \A h \in Highs(2 * T * Unit) : \A k \in 1 .. Len(crossings) - 1 :
                             crossings[k].rising => h = 2 * (Crossed(k + 1) - Crossed(k))
    BY DEF PeriodicIsMeasured
  <2>1. T \in Nat \ {0}
    OBVIOUS
  <2>2. Periods = {2 * T * Unit}
    BY <2>1, PeriodIs
  <2>3. QED
    BY <1>1, <2>1, <2>2
<1>3. QED
  BY <1>2, TimingInvariant, PTL

\* No sample stops inside the band on its way, but at its middle.
NoneInside == \A i \in DOMAIN samples : Outside(i) \/ samples[i] = threshold.level

\* "Times are linearly interpolated between the bracketing samples"
\* (src/src/measure/JEdgeDetector.h:48): of a record with no sample inside the
\* band they are.
THEOREM TimingBracketed == Spec => [](NoneInside => Bracketed)
<1>1. ASSUME TimingInv, NoneInside, NEW k \in DOMAIN crossings
      PROVE  (crossings[k].at - 1) * Unit <= Crossed(k) /\ Crossed(k) <= crossings[k].at * Unit
  <2>1. PICK at \in Int : at = crossings[k].at /\ at \in 1 .. Len(samples) - 1
    BY <1>1, CrossingIs
  <2>2. PICK x \in Int, y \in Int, l \in Int, u \in Nat \ {0} :
           x = samples[at] /\ y = samples[at + 1] /\ l = threshold.level /\ u = Unit
    BY <1>1, <2>1, CrossingIs
  <2>3. (x < y /\ l < y /\ x <= l) \/ (x > y /\ l > y /\ x >= l)
    <3>1. TypeOK /\ Astride(crossings[k], samples, High, Low)
      BY <1>1 DEF TimingInv, DetectorInv
    <3>2. /\ High \in Int /\ Low \in Int /\ Low < l /\ l < High
      BY <2>2, <3>1, BandIsOpen DEF TypeOK
    <3>3. at \in DOMAIN samples
      <4>1. samples \in Seq(Volts)
        BY <3>1 DEF TypeOK
      <4>2. QED
        BY <2>1, <4>1
    <3>4. x >= High \/ x <= Low \/ x = l
      BY <1>1, <2>2, <3>3 DEF NoneInside, Outside
    <3>5. (x < High /\ y >= High) \/ (x > Low /\ y <= Low)
      BY <2>1, <2>2, <3>1 DEF Astride
    <3>6. QED
      BY <3>2, <3>4, <3>5
  <2>4. Crossed(k) = (at - 1) * u + (IF x < y THEN ((l - x) * u) \div (y - x)
                                              ELSE ((x - l) * u) \div (x - y))
    <3>1. (at - 1) + 1 = at
      OBVIOUS
    <3>2. QED
      BY <2>1, <2>2, <3>1 DEF Crossed, TimeAt, Sample
  <2>5. \A a \in Nat, b \in Nat \ {0} : a \div b \in Nat
    BY Quotient
  <2>6. PICK q \in Nat : Crossed(k) = (at - 1) * u + q
    <3>1. CASE x < y
      <4>1. y - x \in Nat \ {0} /\ (l - x) * u \in Nat
        BY <2>3, <3>1
      <4>2. ((l - x) * u) \div (y - x) \in Nat
        BY <2>5, <4>1
      <4>3. QED
        BY <2>4, <3>1, <4>2
    <3>2. CASE ~(x < y)
      <4>1. x - y \in Nat \ {0} /\ (x - l) * u \in Nat
        BY <2>3, <3>2
      <4>2. ((x - l) * u) \div (x - y) \in Nat
        BY <2>5, <4>1
      <4>3. QED
        BY <2>4, <3>2, <4>2
    <3>3. QED
      BY <3>1, <3>2
  <2>7. (at - 1) * u <= Crossed(k)
    BY <2>6
  <2>8. Crossed(k) \in Int /\ Crossed(k) < at * u /\ at * u \in Int
    BY <1>1, <2>1, <2>2, CrossedBefore
  <2>9. QED
    BY <2>1, <2>2, <2>7, <2>8
<1>2. TimingInv => (NoneInside => Bracketed)
  BY <1>1 DEF Bracketed
<1>3. QED
  BY <1>2, TimingInvariant, PTL
==============================================================================
