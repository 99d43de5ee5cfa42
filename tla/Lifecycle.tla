------------------------------ MODULE Lifecycle ------------------------------
(***************************************************************************)
(* The vocabulary of an invoice's processing lifecycle: the statuses of    *)
(* prisma/schema.prisma, the four stages of queue/pipeline-stage.ts with   *)
(* the statuses each of them claims, and the edges of the state machine.   *)
(* Nothing here has state; every other module extends it.                  *)
(***************************************************************************)
Status == {"UPLOADED", "EXTRACTING_TEXT", "TEXT_READY", "EXTRACTING_DATA",
           "DATA_READY", "VALIDATING", "NEEDS_REVIEW", "GENERATING",
           "GENERATING_DOCUMENT", "READY", "FAILED"}

Stages == {"text-extraction", "data-extraction", "validation", "generation"}

(* The configuration every concrete queue passes to PipelineStageQueue.    *)
ClaimFrom == [s \in Stages |->
    CASE s = "text-extraction" -> "UPLOADED"
      [] s = "data-extraction" -> "TEXT_READY"
      [] s = "validation"      -> "DATA_READY"
      [] s = "generation"      -> "GENERATING"]

ClaimTo == [s \in Stages |->
    CASE s = "text-extraction" -> "EXTRACTING_TEXT"
      [] s = "data-extraction" -> "EXTRACTING_DATA"
      [] s = "validation"      -> "VALIDATING"
      [] s = "generation"      -> "GENERATING_DOCUMENT"]

(* Generation reopens before its claim, the other stages after it.         *)
ReopenTo == [s \in Stages |->
    IF s = "generation" THEN ClaimFrom[s] ELSE ClaimTo[s]]

InFlight(s) == {ClaimFrom[s], ClaimTo[s]}

Processing == UNION {InFlight(s) : s \in Stages}

(* DELETABLE_STATUSES of the review service: no worker holds a claim.      *)
Resting == {"NEEDS_REVIEW", "READY", "FAILED"}

(* The handoffs made with publishNextStage.                                *)
Publishers == {"text-extraction", "data-extraction", "validation"}

NextStage == [s \in Publishers |->
    CASE s = "text-extraction" -> "data-extraction"
      [] s = "data-extraction" -> "validation"
      [] s = "validation"      -> "generation"]

LegalTransitions ==
    {<<"UPLOADED", "EXTRACTING_TEXT">>,
     <<"EXTRACTING_TEXT", "TEXT_READY">>, <<"EXTRACTING_TEXT", "FAILED">>,
     <<"TEXT_READY", "EXTRACTING_DATA">>, <<"TEXT_READY", "EXTRACTING_TEXT">>,
     <<"EXTRACTING_DATA", "DATA_READY">>, <<"EXTRACTING_DATA", "FAILED">>,
     <<"DATA_READY", "VALIDATING">>, <<"DATA_READY", "EXTRACTING_DATA">>,
     <<"VALIDATING", "NEEDS_REVIEW">>, <<"VALIDATING", "GENERATING">>,
     <<"NEEDS_REVIEW", "NEEDS_REVIEW">>, <<"NEEDS_REVIEW", "GENERATING">>,
     <<"GENERATING", "GENERATING_DOCUMENT">>, <<"GENERATING", "NEEDS_REVIEW">>,
     <<"GENERATING", "VALIDATING">>,
     <<"GENERATING_DOCUMENT", "NEEDS_REVIEW">>, <<"GENERATING_DOCUMENT", "READY">>,
     <<"FAILED", "EXTRACTING_TEXT">>, <<"FAILED", "EXTRACTING_DATA">>,
     <<"FAILED", "VALIDATING">>, <<"FAILED", "GENERATING">>}

(* failIrrecoverably does not consult the table: an exhausted stage fails  *)
(* its invoice from either of the statuses the stage claims.               *)
ExhaustionEdges == Processing \X {"FAILED"}
==============================================================================
