---------------------------- MODULE MCCutTestRun ----------------------------
(* A small instance of CutTestRun for TLC. *)
EXTENDS CutTestRun

\* A case with a data-driven test and a plain test, which may be interrupted when the
\* case has failed already; a case with a test without function; and a case the filter
\* leaves no test.
MCSuite == << <<"iterator", "test">>, <<"unavailable">>, <<>> >>
=============================================================================
