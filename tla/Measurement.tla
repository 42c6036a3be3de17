----------------------------- MODULE Measurement -----------------------------
(***************************************************************************)
(* What the screen says of a record: its timing                            *)
(* (src/src/measure/JMeasurementEngine.cpp) and its trace                  *)
(* (TraceDecimator).  The records, their levels and their crossings are    *)
(* EdgeDetector's.                                                         *)
(*                                                                         *)
(* A time is an integer: Unit for a sample interval, chosen so that the    *)
(* interpolations over Volts have no remainder.  std::nth_element leaves   *)
(* the order below the nth element open, so what is computed from it is a  *)
(* set of values.                                                          *)
(***************************************************************************)
EXTENDS EdgeDetector, TraceDecimator

CONSTANTS Unit,         \* of time, for the interval between two samples
          MaxColumns    \* bound on the pixels a trace is drawn on

ASSUME MeasurementAssumption == Unit \in Nat \ {0} /\ MaxColumns \in Nat \ {0}

-----------------------------------------------------------------------------
\* A sample counted from 0, as in the code, and the time at which the line
\* through the samples i - 1 and i is at a level.
Sample(i) == samples[i + 1]
TimeAt(i, level) ==
  LET from == Sample(i - 1)
      to   == Sample(i)
  IN  (i - 1) * Unit + (IF from < to THEN ((level - from) * Unit) \div (to - from)
                                     ELSE ((from - level) * Unit) \div (from - to))

\* The detector was given what measureAll() gives it: the middle of the levels,
\* and a tenth of the amplitude for the band.
Measured == LET lv == Levels(samples)
            IN  threshold = [level |-> (lv.top + lv.base) \div 2, half |-> (lv.top - lv.base) \div 20]

\* The elements of a set of indices, the least first.
InOrder(S) == [n \in 1 .. Cardinality(S) |->
                 CHOOSE k \in S : Cardinality({j \in S : j <= k}) = n]

\* The crossings of one direction, and their times.
Edges(rising) == InOrder({k \in DOMAIN crossings : crossings[k].rising = rising})
Crossed(k)    == TimeAt(crossings[k].at, threshold.level)
Times(rising) == [n \in DOMAIN Edges(rising) |-> Crossed(Edges(rising)[n])]

Gaps(times) == [k \in 1 .. Len(times) - 1 |-> times[k + 1] - times[k]]

\* What nth_element puts at place n, counted from 0: n of the others may be less.
Nth(s, n) == CHOOSE v \in {s[k] : k \in DOMAIN s} :
               /\ Cardinality({k \in DOMAIN s : s[k] < v}) <= n
               /\ n < Cardinality({k \in DOMAIN s : s[k] <= v})

\* Twice the median of a sequence that is not empty, as nth_element leaves it:
\* of an even number, the upper of the two in the middle and anything below.
TwiceMedian(s) ==
  LET mid == Len(s) \div 2
  IN  IF Len(s) % 2 = 1 THEN {2 * Nth(s, mid)}
      ELSE {Nth(s, mid) + Nth(s, n) : n \in 0 .. mid - 1}

\* Mutant of Reference: every crossing counts as the end of a cycle.
EitherEdge == [k \in DOMAIN crossings |-> Crossed(k)]

\* The edges a period is taken from, and twice the period.
Reference == IF Len(Times(TRUE)) >= 2 THEN Times(TRUE) ELSE Times(FALSE)
Periods   == IF Len(Reference) < 2 THEN {}
             ELSE {p \in TwiceMedian(Gaps(Reference)) : p > 0}

\* The high times of a record with a period: from a rise to the next fall.
HighTimes(period) ==
  LET falls   == Times(FALSE)
      next(t) == {n \in DOMAIN falls : falls[n] > t}
      high(t) == IF next(t) = {} THEN 0 ELSE falls[Min(next(t))] - t
      highs   == [k \in DOMAIN Times(TRUE) |-> high(Times(TRUE)[k])]
      kept    == InOrder({k \in DOMAIN highs : highs[k] > 0 /\ 2 * highs[k] < period})
  IN  [n \in DOMAIN kept |-> highs[kept[n]]]

\* Twice the median high time: the duty cycle is its share of twice the period.
Highs(period) == IF HighTimes(period) = <<>> THEN {} ELSE TwiceMedian(HighTimes(period))

-----------------------------------------------------------------------------
\* The rise or the fall of the first edge of that direction.
Hits(i, level, rising) ==
  IF rising THEN Sample(i - 1) <= level /\ Sample(i) > level
            ELSE Sample(i - 1) >= level /\ Sample(i) < level
Reaches(i, level, rising) ==
  IF rising THEN Sample(i - 1) < level /\ Sample(i) >= level
            ELSE Sample(i - 1) > level /\ Sample(i) <= level

Tenth(n, rising) == LET lv == Levels(samples)
                    IN  lv.base + ((lv.top - lv.base) * (IF rising THEN n ELSE 10 - n)) \div 10

\* The sample an edge is searched from.  A time before the record is cast to an
\* unsigned number, which may come out as any.
Middles(time) == IF time > -Unit THEN {Min({Max({time, 0}) \div Unit, Len(samples) - 1})}
                 ELSE 0 .. Len(samples) - 1

\* The two pairs of samples the ends of the edge are found between.
EdgeEnds(rising) ==
  LET times == Times(rising)
      left(mid)    == {i \in 1 .. mid : Hits(i, Tenth(1, rising), rising)}
      reached(mid) == {i \in Max({mid, 1}) .. Len(samples) - 1 : Reaches(i, Tenth(9, rising), rising)}
  IN  IF times = <<>> THEN {}
      ELSE {[from |-> Max(left(mid)), to |-> Min(reached(mid))] :
              mid \in {m \in Middles(times[1]) : left(m) # {} /\ reached(m) # {}}}

-----------------------------------------------------------------------------
\* "Times are linearly interpolated between the bracketing samples"
\* (src/src/measure/JEdgeDetector.h:48).  They are not, when the signal stops
\* inside the band on its way: the level is then behind both samples.
Bracketed ==
  \A k \in DOMAIN crossings :
    (crossings[k].at - 1) * Unit <= Crossed(k) /\ Crossed(k) <= crossings[k].at * Unit

\* A record that repeats itself after T samples and rises once in every T is
\* reported with the period T: periods are between crossings of one direction.  And
\* with the duty cycle of every one of its cycles, as highs end at the next fall: if
\* no crossing is timed outside its two samples, where it may change places with
\* the one before it.
Repeats(T) ==
  /\ \A i \in T + 1 .. Len(samples) : samples[i] = samples[i - T]
  /\ \A k \in 1 .. Len(crossings) - 2 : crossings[k + 2].at - crossings[k].at = T
PeriodicIsMeasured ==
  Measured =>
    \A T \in 1 .. Len(samples) \div 2 :
      Repeats(T) /\ Len(Reference) >= 2 =>
        /\ Periods = {2 * T * Unit}
        /\ Bracketed =>
             \A h \in Highs(2 * T * Unit) : \A k \in 1 .. Len(crossings) - 1 :
               crossings[k].rising =>
                 h = 2 * (Crossed(k + 1) - Crossed(k))

\* Nothing is drawn that was not sampled, and every sample is under the trace: it
\* lies between the two vertices of its column, and the columns follow each other
\* as the samples do.
Trace(first, columns) == Decimate(samples, first, Len(samples), columns).points
DrawnIsSampled ==
  \A first \in 0 .. Len(samples) - 1, columns \in 1 .. MaxColumns :
    LET trace == Trace(first, columns)
        count == Len(samples) - first
        under(i, x) == \E p, q \in DOMAIN trace :
                         /\ trace[p].x = x /\ trace[q].x = x
                         /\ trace[p].v <= Sample(i) /\ Sample(i) <= trace[q].v
    IN  /\ \A p \in DOMAIN trace : \E i \in first .. Len(samples) - 1 : trace[p].v = Sample(i)
        /\ count > columns =>
             \A i \in first .. Len(samples) - 1 :
               under(i, ((i - first + 1) * columns - 1) \div count)

\* "The polyline then enters a column where the last one left off and leaves from
\* the far side -- no backtracking": a signal that only rises, or only falls, is
\* drawn by a path that only rises or falls, from the end of its first column.
Monotone(s, up) == \A i \in 2 .. Len(s) : IF up THEN s[i - 1] <= s[i] ELSE s[i - 1] >= s[i]
NoBacktracking ==
  \A first \in 0 .. Len(samples) - 1, columns \in 1 .. MaxColumns, up \in BOOLEAN :
    Monotone(SubSeq(samples, first + 1, Len(samples)), up) =>
      LET trace == Trace(first, columns)
      IN  Monotone([i \in 1 .. Len(trace) - 1 |-> trace[i + 1].v], up)

-----------------------------------------------------------------------------
\* "The median does not care. Half the intervals would have to be spurious before
\* it moved" (src/src/measure/JMeasurementEngine.cpp:164): an interval that more
\* than half of them have is the period.  It is not, of an even number.
MedianHolds ==
  LET gaps == Gaps(Reference)
  IN  \A k \in DOMAIN gaps :
        2 * Cardinality({j \in DOMAIN gaps : gaps[j] = gaps[k]}) > Len(gaps)
        => TwiceMedian(gaps) = {2 * gaps[k]}

\* "the two ends of this edge, not the next one's" (JMeasurementEngine.cpp:237):
\* the signal does not go back to where the edge began before it has ended.
RiseIsOneEdge ==
  Measured => \A e \in EdgeEnds(TRUE) : \A i \in e.from .. e.to - 1 : Sample(i) > Tenth(1, TRUE)
==============================================================================
