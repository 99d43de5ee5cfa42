----------------------------- MODULE ExtractionJob -----------------------------
(***************************************************************************)
(* What the two extraction stages share: the invoice they work on and the  *)
(* BullMQ job that drives each.  StagePipeline has the claims, the queues  *)
(* and the hand-offs; here the stage has been claimed and its own work is  *)
(* what matters.                                                           *)
(***************************************************************************)
EXTENDS Integers, Sequences

CONSTANTS Attempts,    \* of a job
          MaxCrashes   \* bound on deaths of the process

ASSUME JobAssumption == Attempts \in Nat \ {0} /\ MaxCrashes \in Nat

VARIABLES status,    \* of the invoice
          code,      \* failureCode, "none" unless it has FAILED
          attempt,   \* of the job of the current stage
          live,      \* the row is still the one the job was enqueued for
          crashes

jobVars == <<status, code, attempt, live, crashes>>

WorkStatus == {"EXTRACTING_TEXT", "EXTRACTING_DATA", "DATA_READY", "FAILED"}

(* The failure codes of the contract that these two stages may set.        *)
FailureCode == {"pdf_unreadable", "pdf_no_pages", "pdf_too_many_pages",
                "pdf_resource_limit", "ocr_text_too_sparse", "ocr_confidence_too_low",
                "text_too_long", "text_extraction_retries_exhausted",
                "llm_provider_error", "llm_response_not_json",
                "llm_response_schema_mismatch", "llm_response_truncated",
                "llm_no_usable_data", "data_extraction_retries_exhausted"}

JobTypeOK == /\ status \in WorkStatus
             /\ code \in FailureCode \cup {"none"} /\ (code # "none" <=> status = "FAILED")
             /\ attempt \in 1 .. Attempts
             /\ live \in BOOLEAN
             /\ crashes \in 0 .. MaxCrashes

JobInit == /\ status = "EXTRACTING_TEXT" /\ code = "none"
           /\ attempt = 1 /\ live = TRUE /\ crashes = 0

(* The state machine's conditional updates, and lost once the row is gone. *)
Fail(c) == /\ IF live THEN status' = "FAILED" /\ code' = c
                      ELSE UNCHANGED <<status, code>>
           /\ UNCHANGED <<attempt, live, crashes>>

Advance(s) == /\ IF live THEN status' = s /\ attempt' = 1
                         ELSE UNCHANGED <<status, attempt>>
              /\ UNCHANGED <<code, live, crashes>>

(* A handler that throws is tried again until its attempts are used up.    *)
TryAgain(exhausted) ==
    IF attempt < Attempts
    THEN attempt' = attempt + 1 /\ UNCHANGED <<status, code, live, crashes>>
    ELSE Fail(exhausted)

(* The row expires, is deleted or is renewed under another key.            *)
Disappear ==
    /\ live
    /\ status \in {"EXTRACTING_TEXT", "EXTRACTING_DATA"}
    /\ live' = FALSE
    /\ UNCHANGED <<status, code, attempt, crashes>>

(* The process dies: the same job runs again from its start.               *)
Die == /\ crashes < MaxCrashes
       /\ crashes' = crashes + 1
       /\ UNCHANGED <<status, code, attempt, live>>
================================================================================
