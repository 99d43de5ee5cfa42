---------------------------- MODULE DataExtraction ----------------------------
(***************************************************************************)
(* The data of an invoice.  The language model is asked once, and once     *)
(* more to repair an answer that cannot be used; every answer is recorded  *)
(* before it is judged, and a recorded answer of the same provider, model  *)
(* and prompt version is used again after a retry or a restart, unless a   *)
(* release has meanwhile changed the schema it was accepted by.            *)
(***************************************************************************)
EXTENDS ExtractionJob

CONSTANTS Identities,   \* provider, model and prompt version
          Configured,   \* the one the first process runs with
          MaxSwitches   \* bound on restarts under another identity

ASSUME DataAssumption == Configured \in Identities /\ MaxSwitches \in Nat

VARIABLES identity,   \* of the running process
          switches,
          step,       \* where the job is
          prompt,     \* "first" or "repair"
          reply,      \* of the provider, not yet judged
          records,    \* the ExtractionAttempts of this lifecycle, by number
          outdated    \* the running schema refuses the data of the first ones

dataVars == <<identity, switches, step, prompt, reply, records, outdated>>

-------------------------------------------------------------------------------
(* What a text from the model turns out to be, complete or cut short.      *)
Content == {"invoice", "blank", "schema", "json"}

Reply == [content : Content, truncated : BOOLEAN]

NoReply == [content |-> "json", truncated |-> FALSE]

Parses(content) == content \in {"invoice", "blank"}

(* An attempt keeps its answer, and the data once it is judged usable.     *)
Record == [by : Identities, data : {"none", "invoice", "blank"}]

NewRecord == [by |-> identity, data |-> "none"]

(* fetchBody: no connection, no answer in time, or too much of one.        *)
Undelivered == {"refused", "late", "oversized"}

(* What a request to the provider can come to, before its text is read:    *)
(* nothing, an HTTP status, or a body that is not the provider's envelope  *)
(* or has no text in it.                                                   *)
Outcome == Undelivered \cup
           {"status 4xx", "status 408", "status 429", "status 5xx",
            "status 50x", "not json", "off contract", "no text"}

(* llmStatusError: 408, 429, 500, 502, 503 and 504 are tried again.        *)
Retryable == Undelivered \cup {"status 408", "status 429", "status 50x"}

-------------------------------------------------------------------------------
DataTypeOK ==
    /\ identity \in Identities
    /\ switches \in 0 .. MaxSwitches
    /\ step \in {"waiting", "ask", "record", "judge", "accept", "done"}
    /\ prompt \in {"first", "repair"}
    /\ reply \in Reply
    /\ \A i \in DOMAIN records : records[i] \in Record
    /\ outdated \in Nat

DataInit ==
    /\ identity = Configured
    /\ switches = 0
    /\ step = "waiting" /\ prompt = "first"
    /\ reply = NoReply
    /\ records = <<>>
    /\ outdated = 0

At(s) == status = "EXTRACTING_DATA" /\ step = s

Go(s, p) == step' = s /\ prompt' = p /\ UNCHANGED <<identity, switches, outdated>>

Finish == Go("done", "first") /\ reply' = NoReply

Again ==
    /\ TryAgain("data_extraction_retries_exhausted")
    /\ Go(IF attempt < Attempts THEN "waiting" ELSE "done", "first")
    /\ reply' = NoReply

(* The attempt that is being judged.                                       *)
Current == Len(records)

(* The latest parsed record of this identity, 0 when there is none.        *)
Parsed(i) == records[i].data # "none"

Latest(S) == CHOOSE i \in S \cup {0} : \A j \in S : j <= i

(* A bug: any parsed record will do.                                       *)
ReusableOfAny == Latest({i \in DOMAIN records : Parsed(i)})

Reusable == Latest({i \in DOMAIN records : Parsed(i) /\ records[i].by = identity})

(* The record that validation and generation read: of any identity.        *)
Read == Latest({i \in DOMAIN records : Parsed(i)})

Decide(content) ==
    /\ IF content = "blank" THEN Fail("llm_no_usable_data") ELSE Advance("DATA_READY")
    /\ Finish

(* A bug: only a fresh row has no parsed record.                           *)
ForgetRecords ==
    /\ At("waiting")
    /\ IF live THEN Go("ask", "first") /\ UNCHANGED reply ELSE Finish
    /\ UNCHANGED <<jobVars, records>>

(* A stored answer is taken if it still passes the schema.                 *)
StartData ==
    /\ At("waiting")
    /\ \/ ~live /\ Finish /\ UNCHANGED jobVars
       \/ live /\ Reusable > outdated /\ Decide(records[Reusable].data)
       \/ /\ live /\ Reusable <= outdated
          /\ Go("ask", "first")
          /\ UNCHANGED <<jobVars, reply>>
    /\ UNCHANGED records

(* The call to the provider, which its timeout ends.                       *)
Ask ==
    /\ At("ask")
    /\ \/ \E r \in Reply : reply' = r /\ Go("record", prompt) /\ UNCHANGED jobVars
       \/ \E o \in Outcome :
             IF o \in Retryable THEN Again
             ELSE Fail("llm_provider_error") /\ Finish
    /\ UNCHANGED records

(* One transaction: the row is still this one's, and its next number.      *)
RecordReply ==
    /\ At("record")
    /\ IF live
       THEN /\ records' = Append(records, NewRecord)
            /\ Go("judge", prompt)
            /\ UNCHANGED reply
       ELSE Finish /\ UNCHANGED records
    /\ UNCHANGED jobVars

(* finalize by the id of the attempt, which throws when a new lifecycle    *)
(* has removed it; then the answer is taken, repaired or refused.          *)
Judge ==
    /\ At("judge")
    /\ LET n == Current
       IN  IF n = 0 THEN Again /\ UNCHANGED records
           ELSE /\ records' = [records EXCEPT ![n].data =
                                  IF Parses(reply.content) THEN reply.content ELSE @]
                /\ CASE Parses(reply.content) ->
                            Go("accept", "first") /\ UNCHANGED <<jobVars, reply>>
                     [] ~Parses(reply.content) /\ reply.truncated ->
                            Fail("llm_response_truncated") /\ Finish
                     [] ~Parses(reply.content) /\ ~reply.truncated
                            /\ prompt = "first" ->
                            Go("ask", "repair") /\ reply' = NoReply
                            /\ UNCHANGED jobVars
                     [] OTHER ->
                            Fail(IF reply.content = "json"
                                 THEN "llm_response_not_json"
                                 ELSE "llm_response_schema_mismatch") /\ Finish

Accept ==
    /\ At("accept")
    /\ Decide(reply.content)
    /\ UNCHANGED records

(* The restarted process may be configured for another provider, and be of *)
(* a release whose schema refuses what was stored up to some moment.       *)
DataDies ==
    /\ status = "EXTRACTING_DATA" /\ step # "done"
    /\ Die
    /\ step' = "waiting" /\ prompt' = "first" /\ reply' = NoReply
    /\ \E i \in Identities :
          /\ identity' = i
          /\ switches' = IF i = identity THEN switches ELSE switches + 1
          /\ switches' <= MaxSwitches
    /\ outdated' \in 0 .. Len(records)
    /\ UNCHANGED records

(* A new lifecycle removes the attempts, an expired row keeps them.        *)
DataDisappears ==
    /\ status = "EXTRACTING_DATA"
    /\ Disappear
    /\ records' \in {records, <<>>}
    /\ UNCHANGED <<identity, switches, step, prompt, reply, outdated>>

DataSteps == StartData \/ Ask \/ RecordReply \/ Judge \/ Accept

DataNext == DataSteps \/ DataDies \/ DataDisappears

-------------------------------------------------------------------------------
(* An answer that has been judged usable is never paid for again while the *)
(* schema accepts it: no retry and no restart under the same identity asks *)
(* the provider once more.                                                 *)
NeverPaysTwice == At("ask") => Reusable <= outdated

(* What validation and generation will read is what the stage accepted: a  *)
(* usable answer that passes the schema, though they look it up again      *)
(* without its identity.  That cannot be said once the provider has been   *)
(* switched away and back: an answer of the other one, blank perhaps, then *)
(* has the higher number.                                                  *)
ReadsWhatWasAccepted ==
    status = "DATA_READY" /\ switches <= 1 =>
        /\ Read > outdated
        /\ records[Read].by = identity
        /\ records[Read].data = "invoice"

===============================================================================
