--------------------------- MODULE LifecyclePromise ---------------------------
(***************************************************************************)
(* What the API promises about one invoice, with no queue, worker, retry   *)
(* or crash in sight.  An invoice lives through lifecycles, each named by  *)
(* its storage key.  Within a lifecycle the status follows the edges of    *)
(* the state machine, the user's corrections are numbered, and a document  *)
(* is valid exactly when the invoice is READY.  StagePipeline and          *)
(* ReviewPipeline are shown to implement this specification.               *)
(***************************************************************************)
EXTENDS Lifecycle, Naturals

VARIABLES key,        \* the storage key of the current lifecycle
          live,       \* the row exists and has not expired
          status,
          version,    \* number of corrections accepted in this lifecycle
          document    \* the generated document, if any

vars == <<key, live, status, version, document>>

Init ==
    /\ key = 1
    /\ live = TRUE
    /\ status \in {ClaimFrom[s] : s \in Stages}   \* from any handoff on
    /\ version = 0
    /\ document = "none"

(* Any stage, rollback, failure or dead-letter retry.                      *)
Advance ==
    /\ live
    /\ status # "GENERATING_DOCUMENT"
    /\ <<status, status'>> \in LegalTransitions \cup ExhaustionEdges
    /\ status # "NEEDS_REVIEW"
    /\ UNCHANGED <<key, live, version, document>>

(* The generation stage ends with its document and its verdict together.   *)
Generate ==
    /\ live
    /\ status = "GENERATING_DOCUMENT"
    /\ document = "none"
    /\ \/ status' = "READY" /\ document' = "valid"
       \/ status' = "NEEDS_REVIEW" /\ document' \in {"none", "rejected"}
       \/ status' = "FAILED" /\ document' = "none"
    /\ UNCHANGED <<key, live, version>>

(* A correction supersedes the document of the one before it.              *)
Correct ==
    /\ live
    /\ status = "NEEDS_REVIEW"
    /\ status' \in {"NEEDS_REVIEW", "GENERATING"}
    /\ version' = version + 1
    /\ document' = "none"
    /\ UNCHANGED <<key, live>>

Expire ==
    /\ live
    /\ live' = FALSE
    /\ UNCHANGED <<key, status, version, document>>

(* The same PDF uploaded again after expiry starts from nothing.           *)
Renew ==
    /\ ~live
    /\ key' = key + 1
    /\ live' = TRUE
    /\ status' = "UPLOADED"
    /\ version' = 0
    /\ document' = "none"

Next == Advance \/ Generate \/ Correct \/ Expire \/ Renew

Spec == Init /\ [][Next]_vars
==============================================================================
