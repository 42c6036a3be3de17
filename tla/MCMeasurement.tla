---------------------------- MODULE MCMeasurement ----------------------------
(***************************************************************************)
(* Four voltages.  Three of the thresholds are those of records between 0  *)
(* and 60, 0 and 40, 20 and 40; the last is a band with samples inside.    *)
(* Two voltages side by side are 12, 6 or 4 bins apart, as the record      *)
(* spans 20, 40 or 60: at 4 they are no longer two levels.                 *)
(***************************************************************************)
EXTENDS Measurement

MCVolts == {0, 20, 40, 60}
MCThresholds == {[level |-> 30, half |-> 3], [level |-> 20, half |-> 2],
                 [level |-> 30, half |-> 1], [level |-> 30, half |-> 15]}
==============================================================================
