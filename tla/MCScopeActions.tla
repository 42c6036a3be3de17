----------------------------- MODULE MCScopeActions -----------------------------
(***************************************************************************)
(* A ramp that flies back over a sixth of its period.  It crosses its       *)
(* middle, which autoset chooses, twice half a period apart, and a lower    *)
(* level at two times that are not; the third level it does not reach.      *)
(* A sweep lasts a period.                                                  *)
(***************************************************************************)
EXTENDS ScopeActions

Ramp == [i \in 0 .. Points - 1 |-> 2 * i]
MCSignals == {Ramp}
==============================================================================
