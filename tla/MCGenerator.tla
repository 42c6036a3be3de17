----------------------------- MODULE MCGenerator -----------------------------
(***************************************************************************)
(* Two outputs, patterns of one and two steps, speeds up to six of which a *)
(* pattern of two steps can do three.                                      *)
(***************************************************************************)
EXTENDS Generator

MCDefault == <<{1}>>
MCFiles   == {<<{2}, {1, 2}>>}
==============================================================================
