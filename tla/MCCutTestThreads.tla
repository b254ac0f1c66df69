--------------------------- MODULE MCCutTestThreads ---------------------------
(* Small instances of CutTestThreads for TLC. *)
EXTENDS CutTestThreads

\* A case with a data-driven test in threads of its own, then a case with a
\* data-driven test in the thread of the case and a plain test.
MCSuite == << <<"iterator">>, <<"serial", "test">> >>

\* One data-driven test.
MCIterator == << <<"iterator">> >>

\* The plain test of MCSuite and its first iterated test start a thread.
MCThreaded == { <<1, 1, 1>>, <<2, 2, 0>> }
=============================================================================
