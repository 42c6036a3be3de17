----------------------------- MODULE EdgeDetector -----------------------------
(***************************************************************************)
(* The levels of a record and its crossings                                *)
(* (src/src/measure/JEdgeDetector.cpp).                                    *)
(*                                                                         *)
(* findCrossings() reads one sample after another with one flag of memory, *)
(* and so does this module: a state is a record read so far, and every     *)
(* record over Volts is reached.  Voltages are integers in a unit small    *)
(* enough for half a hysteresis band.  findLevels() is an operator on      *)
(* records; its percentages and its histogram are constants, so that short *)
(* records can be on either side of them.                                  *)
(***************************************************************************)
EXTENDS Integers, Sequences, FiniteSets, FiniteSetsExt

LOCAL INSTANCE Functions

CONSTANTS Volts,            \* the voltages a sample can have
          Thresholds,       \* level and half of the band the detector may be given
          MaxSamples,       \* bound on the length of a record
          Bins,             \* kHistogramBins
          MinSeparation,    \* kMinSeparationBins
          ModeShare,        \* least share of both modes together, percent
          SecondShare       \* kMinSecondModeShare, percent

ASSUME DetectorAssumption ==
  /\ Volts \subseteq Int
  /\ Thresholds \subseteq [level : Int, half : Nat \ {0}]
  /\ MaxSamples \in Nat
ASSUME HistogramAssumption ==
  /\ Bins \in Nat \ {0, 1} /\ MinSeparation \in 1 .. Bins - 1
  /\ ModeShare \in 0 .. 100 /\ SecondShare \in 1 .. 100

VARIABLES samples,      \* the record, as far as it has been read
          threshold,    \* level and half of the hysteresis
          above,        \* the side of the signal: the detector's only memory
          crossings     \* found so far, each with the sample that completed it

vars == <<samples, threshold, above, crossings>>

-----------------------------------------------------------------------------
\* findLevels(): the bin of a voltage among those from lo to hi, and the histogram
\* of a record that is not flat.
Bin(v, lo, hi) == ((v - lo) * (Bins - 1)) \div (hi - lo)
Histogram(s) ==
  LET bin == [i \in DOMAIN s |-> Bin(s[i], Min(Range(s)), Max(Range(s)))]
  IN  [b \in 0 .. Bins - 1 |-> Cardinality({i \in DOMAIN s : bin[i] = b})]

\* The first of the fullest of some bins.
Densest(h, bins) == Min({b \in bins : \A o \in bins : h[o] <= h[b]})

\* The voltage of a bin, where the bins divide the span without remainder.
VoltsOf(s, b) ==
  Min(Range(s)) + (b * (Max(Range(s)) - Min(Range(s)))) \div (Bins - 1)

BaseAndTop(a, b) == [base |-> Min({a, b}), top |-> Max({a, b})]

\* Mutant of Modes: the range is split in half, and each half has its mode.
Halves(h, count) == {Densest(h, 0 .. (Bins \div 2) - 1), Densest(h, Bins \div 2 .. Bins - 1)}

\* The densest bin, and the densest far enough away to be another level: both, if
\* between them and in the second alone there are samples enough.
Modes(h, count) ==
  LET first  == Densest(h, DOMAIN h)
      far    == {b \in DOMAIN h : b - first >= MinSeparation \/ first - b >= MinSeparation}
      second == Densest(h, far)
  IN  IF /\ far # {}
         /\ (h[first] + h[second]) * 100 >= ModeShare * count
         /\ h[second] * 100 >= SecondShare * count
      THEN {first, second} ELSE {0, Bins - 1}

Levels(s) ==
  IF Cardinality(Range(s)) = 1 THEN BaseAndTop(s[1], s[1])
  ELSE LET modes == Modes(Histogram(s), Len(s))
       IN  BaseAndTop(VoltsOf(s, Min(modes)), VoltsOf(s, Max(modes)))

-----------------------------------------------------------------------------
\* findCrossings(): the band.
High == threshold.level + threshold.half
Low  == threshold.level - threshold.half

TypeOK == /\ samples \in Seq(Volts) /\ samples # <<>>
          /\ threshold \in Thresholds
          /\ above \in BOOLEAN
          /\ crossings \in Seq([at : Nat \ {0}, rising : BOOLEAN])

\* The first sample: the side the signal begins on.
Init == /\ threshold \in Thresholds
        /\ \E v \in Volts : samples = <<v>> /\ above = (v > threshold.level)
        /\ crossings = <<>>

\* The other side of the band is reached; the mutant has no band.
Crosses(v) == IF above THEN v <= threshold.level ELSE v >= threshold.level
Clears(v)  == IF above THEN v <= Low ELSE v >= High

\* Mutant of Cross: the side is not remembered.
CrossForgotten(v) ==
  /\ Clears(v)
  /\ crossings' = Append(crossings, [at |-> Len(samples), rising |-> ~above])
  /\ UNCHANGED above

\* Sample i, counted from 0, completes a crossing ...
Cross(v) ==
  /\ Clears(v)
  /\ crossings' = Append(crossings, [at |-> Len(samples), rising |-> ~above])
  /\ above' = ~above

\* ... or grazes the level, or stays.
Stay(v) == ~Clears(v) /\ UNCHANGED <<crossings, above>>

Read(v) == /\ Len(samples) < MaxSamples
           /\ samples' = Append(samples, v)
           /\ Cross(v) \/ Stay(v)
           /\ UNCHANGED threshold

Next == \E v \in Volts : Read(v)
Spec == Init /\ [][Next]_vars

-----------------------------------------------------------------------------
\* A rise is followed by a fall and a fall by a rise, whatever the noise: what
\* periods and duty cycles are counted from (JMeasurementEngine.cpp:153-159).
EdgesAlternate ==
  \A k \in 1 .. Len(crossings) - 1 : crossings[k].rising # crossings[k + 1].rising

\* Sample i, counted from 1, is outside the band.
Outside(i) == samples[i] >= High \/ samples[i] <= Low

\* "A crossing is only accepted once the signal has cleared the far side of the
\* hysteresis band. Grazing the threshold produces nothing": sample i completes a
\* crossing just when it is outside the band, on the other side of it than the
\* last sample before it that was outside, or than the side the record began on.
Excursion(i) ==
  /\ Outside(i)
  /\ \/ \E k \in 1 .. i - 1 :
          /\ Outside(k) /\ \A m \in k + 1 .. i - 1 : ~Outside(m)
          /\ (samples[k] >= High) # (samples[i] >= High)
     \/ /\ \A k \in 1 .. i - 1 : ~Outside(k)
        /\ i > 1 /\ (samples[1] > threshold.level) # (samples[i] >= High)

CrossingsAreExcursions ==
  \A i \in DOMAIN samples :
    Excursion(i) <=> \E k \in DOMAIN crossings :
                       crossings[k] = [at |-> i - 1, rising |-> samples[i] >= High]

\* "One sample at ADC zero -- a dropout, which this instrument does produce" must
\* not move a level: a record of two levels, each held often enough to count, and
\* one sample of anything else has the voltages of their two bins for base and top,
\* as long as these bins are far enough apart to be two levels.  Where the dropout
\* has stretched the histogram beyond that, base and top are the extremes of the
\* record, the dropout one of them: nothing else is reported, if a single sample is
\* too small a share for a level.
Held(v) == Cardinality({i \in DOMAIN samples : samples[i] = v})
TwoLevels(a, b) ==
  /\ a < b /\ Held(a) > 1 /\ Held(b) > 1 /\ Held(a) + Held(b) >= Len(samples) - 1
  /\ \A v \in {a, b} : Held(v) * 100 >= SecondShare * Len(samples)
LevelsIgnoreDropout ==
  \A a, b \in Volts :
    LET lo   == Min(Range(samples))
        hi   == Max(Range(samples))
        low  == Bin(a, lo, hi)
        high == Bin(b, lo, hi)
    IN  TwoLevels(a, b) =>
          IF high - low >= MinSeparation
          THEN Levels(samples) = [base |-> VoltsOf(samples, low), top |-> VoltsOf(samples, high)]
          ELSE 100 < SecondShare * Len(samples) => Levels(samples) = [base |-> lo, top |-> hi]

\* "Taking the densest bin, then the densest one far enough away from it, is immune
\* to that" (src/src/measure/JEdgeDetector.cpp:58): a dropout leaves base and top
\* where the two levels are.  It does not, when it is seven times as far away as
\* they are from each other: the two are then in bins too close to be two levels.
ImmuneToDropout ==
  \A a, b \in Volts : TwoLevels(a, b) => Levels(samples) = [base |-> a, top |-> b]
==============================================================================
