----------------------------- MODULE MCExtraction -----------------------------
(* Finite instances of Extraction for TLC.                                   *)
EXTENDS Extraction

CONSTANTS p, q
===============================================================================
