---------------------------- MODULE MCReviewPipeline ----------------------------
(***************************************************************************)
(* Instances of ReviewPipeline for TLC.                                    *)
(***************************************************************************)
EXTENDS ReviewPipeline, TLC

ConsumersFirst ==
    <<"generation", "validation", "data-extraction", "text-extraction">>

(* Nothing tells one reviewer from another.                                *)
Symmetry == Permutations(Reviewers)
==============================================================================
