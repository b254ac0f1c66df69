------------------------- MODULE CutTestThreadsClaims -------------------------
(***************************************************************************)
(* What the documents of the repository say of a run in multi-thread mode  *)
(* and the code does not do.                                               *)
(***************************************************************************)
EXTENDS MCCutTestThreads

\* Data-driven tests are supported on multi-thread (NEWS): a run with them ends.
\* One whose iterated test gives up in a thread of the pool does not.
RunCompletes == <>(main = "complete" \/ proc = "signaled")
=============================================================================
