----------------------------- MODULE MCDebugger -----------------------------
(* Instances of Debugger for TLC. *)
EXTENDS Debugger, TLC

\* Worker threads are interchangeable; no liveness property is checked under
\* this symmetry.
Symmetry == Permutations(Workers)
=============================================================================
