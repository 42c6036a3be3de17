--------------------------- MODULE MCScopeSession ---------------------------
(***************************************************************************)
(* Up to three drivers and three connects against one or two long          *)
(* operations, with every close() in between.                              *)
(***************************************************************************)
EXTENDS ScopeSession
==============================================================================
