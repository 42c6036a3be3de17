---------------------------- MODULE MCHantekProtocol ----------------------------
(***************************************************************************)
(* Two answers may be late, each at most two commands; two polls; a half of *)
(* a record is one packet.                                                 *)
(***************************************************************************)
EXTENDS HantekProtocol
==============================================================================
