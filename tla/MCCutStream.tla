----------------------------- MODULE MCCutStream -----------------------------
(***************************************************************************)
(* A child with two test cases in two threads, a plain test in the one, a  *)
(* data-driven test in the other; the tests have an attribute.             *)
(***************************************************************************)
EXTENDS CutStream

MCCases == {"plain", "driven"}
MCDriven == {"driven"}
TestAttributes == {"test", "iterated-test"}
\* What attributes_*() functions set: the attributes of tests, driven or not.
LoadedAttributes == {"test", "test-iterator"}
=============================================================================
