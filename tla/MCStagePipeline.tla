---------------------------- MODULE MCStagePipeline ----------------------------
(***************************************************************************)
(* Instances of StagePipeline for TLC.                                     *)
(***************************************************************************)
EXTENDS StagePipeline

(* Nest runs the startup hooks of the modules furthest from the root first, *)
(* and every stage's module imports the one of the stage it publishes to.  *)
ConsumersFirst ==
    <<"generation", "validation", "data-extraction", "text-extraction">>

ProducersFirst ==
    <<"text-extraction", "data-extraction", "validation", "generation">>
==============================================================================
