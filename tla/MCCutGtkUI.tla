----------------------------- MODULE MCCutGtkUI ------------------------------
(***************************************************************************)
(* A small instance of CutGtkUI: all runs of up to two tests or iterators, *)
(* in one test case or two, with signals, a child that may die anywhere,   *)
(* a cancel and a restart.                                                 *)
(***************************************************************************)
EXTENDS CutGtkUI

\* The statuses that a status is compared with: the best, one in between, and the
\* one that stops a run.
MCReported == {Success, Failure, Crash}
===============================================================================
