--------------------------- MODULE MCCutSubProcess ---------------------------
(* Two sub processes and one group. *)
EXTENDS CutSubProcess
=============================================================================
