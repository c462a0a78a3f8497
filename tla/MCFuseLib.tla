------------------------------ MODULE MCFuseLib ------------------------------
(***************************************************************************)
(* The file system library, for TLC: threads and names are                 *)
(* interchangeable.                                                        *)
(***************************************************************************)
EXTENDS FuseLib, TLC

Sym == Permutations(Threads) \cup Permutations(Names)
==============================================================================
