------------------------------ MODULE MCCutDiffer ------------------------------
(***************************************************************************)
(* Small instance of CutDiffer: two lines that are alike to just the       *)
(* cut-off ratio, one of which ends in a space, and a line like no other.  *)
(***************************************************************************)
EXTENDS CutDiffer

MCLines == {<<"a", "b", "c", "d">>, <<"a", "b", "c", " ">>, <<"x">>}
===============================================================================
