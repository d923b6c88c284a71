---------------------------- MODULE MCAsyncRunner ----------------------------
(* Instances of AsyncRunner for TLC.                                          *)
EXTENDS AsyncRunner, TLC

Symmetry == Permutations(Cases)
==============================================================================
