--------------------------- MODULE MCReviewClient ---------------------------
(* Bounds for ReviewClient; see the configurations.                        *)
EXTENDS ReviewClient
=============================================================================
