---------------------------- MODULE MCHantekDriver ----------------------------
(***************************************************************************)
(* The configurations differ in the calls that are made.                   *)
(***************************************************************************)
EXTENDS HantekDriver
==============================================================================
