----------------------------- MODULE MCTestsuite -----------------------------
(***************************************************************************)
(* The test suite, for TLC: the paths of a recording are interchangeable.  *)
(***************************************************************************)
EXTENDS Testsuite, TLC

Sym == Permutations(Paths)
==============================================================================
