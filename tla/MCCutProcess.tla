----------------------------- MODULE MCCutProcess -----------------------------
(***************************************************************************)
(* Small instance of CutProcess, and a statement of cut-experimental.h     *)
(* that the code does not keep.                                            *)
(***************************************************************************)
EXTENDS CutProcess

\* cut-experimental.h shows cut_fork() followed by cut_assert_errno(): a fork
\* that fails is a failure of the test, after which the runner goes on.
FailedForkFailsTheTest == state[Runner] \notin {"exited", "stuck"}
===============================================================================
