---------------------------- MODULE TraceDecimator ----------------------------
(***************************************************************************)
(* What is drawn of a record (src/src/measure/JTraceDecimator.cpp): one    *)
(* vertex for each sample while there is a pixel for each, and the         *)
(* extremes of every pixel column when there are more.  A vertex is the    *)
(* column and the voltage; the map from volts to the screen is linear and  *)
(* keeps distances in proportion, which is all that is asked of it here.   *)
(***************************************************************************)
EXTENDS Integers, Sequences, FiniteSetsExt

Distance(a, b) == IF a < b THEN b - a ELSE a - b

\* The samples of a viewport, counted from 0: first, and how many.
FirstOf(s, first)        == Min({first, Len(s)})
CountOf(s, first, count) == Min({count, Len(s) - FirstOf(s, first)})

\* The samples of column c.  The mutant gives every column the same number.
EqualSpan(first, count, columns, c) ==
  first + c * (count \div columns) .. first + (c + 1) * (count \div columns) - 1
Span(first, count, columns, c) ==
  LET lo == first + (count * c) \div columns
      hi == first + (count * (c + 1)) \div columns
  IN  lo .. Min({Max({hi, lo + 1}), first + count}) - 1

\* Which extreme of a column comes first, when the last column left off at
\* `exit`.  The mutant always begins at the top.
AlwaysTop(extremes, exit) == <<extremes.top, extremes.bottom>>
Order(extremes, exit) ==
  IF Distance(extremes.top, exit) <= Distance(extremes.bottom, exit)
  THEN <<extremes.top, extremes.bottom>> ELSE <<extremes.bottom, extremes.top>>

Extremes(s, span) == LET volts == {s[i + 1] : i \in span}
                     IN  [top |-> Max(volts), bottom |-> Min(volts)]

\* The pair of voltages each column is drawn between, in the order of the path.
Envelope(s, first, count, columns) ==
  LET column(c) == Extremes(s, Span(first, count, columns, c))
      drawn[c \in 0 .. columns - 1] ==
        IF c = 0 THEN <<column(0).top, column(0).bottom>>
        ELSE Order(column(c), drawn[c - 1][2])
  IN  drawn

\* decimate(), of the part (first, count) of a record on `columns` pixels.
Vertex(x, v) == [x |-> x, v |-> v]
Decimate(s, from, request, columns) ==
  LET first == FirstOf(s, from)
      count == CountOf(s, from, request)
      drawn == Envelope(s, first, count, columns)
  IN  IF count <= columns
      THEN [path |-> IF count = 0 THEN "Empty" ELSE "Interpolated",
            points |-> [i \in 1 .. count |-> Vertex(i - 1, s[first + i])]]
      ELSE [path |-> "Envelope",
            points |-> [i \in 1 .. 2 * columns |->
                          Vertex((i - 1) \div 2, drawn[(i - 1) \div 2][((i - 1) % 2) + 1])]]
==============================================================================
