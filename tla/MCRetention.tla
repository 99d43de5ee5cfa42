----------------------------- MODULE MCRetention -----------------------------
(* Finite instances of Retention for TLC.                                   *)
EXTENDS Retention, TLC

CONSTANTS u, v, d

Symmetry == Permutations(Uploaders)
==============================================================================
