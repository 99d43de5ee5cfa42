----------------------------- MODULE InvoiceStore -----------------------------
(***************************************************************************)
(* What survives a crash: the invoice row with its findings and generated  *)
(* documents in PostgreSQL, and the four BullMQ queues with their          *)
(* dead-letter queues in Redis.  The operators are the operations of       *)
(* InvoiceStateMachine (each one a conditional update in one transaction)  *)
(* and of PipelineStageQueue; the actions that call them are in the        *)
(* modules that extend this one.                                           *)
(*                                                                         *)
(* One invoice is enough: rows are independent, and what interferes with a *)
(* row is its own past, the jobs of its earlier storage keys.              *)
(***************************************************************************)
EXTENDS Lifecycle, Naturals, Sequences

CONSTANTS MaxKey,      \* bound on the storage keys the invoice is given
          Attempts,    \* jobOptions.attempts
          MaxStalls    \* BullMQ's maxStalledCount, which the code leaves alone

ASSUME StoreAssumption ==
    /\ MaxKey \in Nat \ {0}
    /\ Attempts \in Nat \ {0}
    /\ MaxStalls \in Nat

Keys == 1 .. MaxKey

VARIABLES row, job, deadLetters

store == <<row, job, deadLetters>>

-------------------------------------------------------------------------------
(* The invoice row.  "failure" is the failure code: "none", "content" for  *)
(* any deterministic failure, or the stage whose retries are exhausted.    *)
(* "live" is "exists and expiresAt > now"; time passing, the sweep and a   *)
(* deletion all end it.  "version" is reviewVersion, and stands for        *)
(* reviewedData too, which is replaced exactly when the version grows      *)
(* (0: never corrected).  "findings" are the kinds of failed findings      *)
(* stored with the row: ERRORs of the rules and of the mapper, and         *)
(* KoSIT's.                                                                *)
Document == [version : Nat, valid : BOOLEAN]

Row == [key : Keys, live : BOOLEAN, status : Status,
        failure : {"none", "content"} \cup Stages,
        version : Nat,
        findings : SUBSET {"rule", "mapping", "kosit"},
        documents : Seq(Document)]

NewRow(k) ==
    [key |-> k, live |-> TRUE, status |-> "UPLOADED", failure |-> "none",
     version |-> 0, findings |-> {}, documents |-> <<>>]

(* A bug: a predicate without the storage key.                             *)
HoldsAnyKey(k, from) == row.live /\ row.status \in from

(* The compare-and-swap predicate every lifecycle write carries.           *)
Holds(k, from) == row.key = k /\ row.live /\ row.status \in from

(* InvoiceStateMachine.transition to a status other than FAILED.           *)
Transition(k, from, to) ==
    /\ Holds(k, {from})
    /\ row' = [row EXCEPT !.status = to]

(* The same transition to FAILED, which must carry a failure.              *)
TransitionToFailed(k, from) ==
    /\ Holds(k, {from})
    /\ row' = [row EXCEPT !.status = "FAILED", !.failure = "content"]

(* completeValidation: every finding of the row is replaced.               *)
CompleteValidation(k, to, findings) ==
    /\ Holds(k, {"VALIDATING"})
    /\ row' = [row EXCEPT !.status = to, !.findings = findings]

(* rejectGeneration replaces the mapping.* findings and nothing else.      *)
RejectGeneration(k) ==
    /\ Holds(k, {"GENERATING_DOCUMENT"})
    /\ row' = [row EXCEPT !.status = "NEEDS_REVIEW",
                          !.findings = @ \cup {"mapping"}]

(* completeGeneration replaces the kosit.* findings and stores a document. *)
(* A rejection always has a kosit.* finding (kositRejectionFindings adds   *)
(* one when KoSIT sent no message); it counts here whatever its level, an  *)
(* ERROR, a warning or a hint.                                             *)
CompleteGeneration(k, version, valid) ==
    /\ Holds(k, {"GENERATING_DOCUMENT"})
    /\ row' = [row EXCEPT
            !.status = IF valid THEN "READY" ELSE "NEEDS_REVIEW",
            !.findings = (@ \ {"kosit"}) \cup (IF valid THEN {} ELSE {"kosit"}),
            !.documents = Append(@, [version |-> version, valid |-> valid])]

(* failIrrecoverably answers "claimed" when it fails the row and also when *)
(* the row already failed for the same reason.                             *)
FailsIrrecoverably(s, k) == Holds(k, InFlight(s))

AlreadyExhausted(s, k) == Holds(k, {"FAILED"}) /\ row.failure = s

FailIrrecoverably(s, k) ==
    \/ /\ FailsIrrecoverably(s, k)
       /\ row' = [row EXCEPT !.status = "FAILED", !.failure = s]
    \/ AlreadyExhausted(s, k) /\ UNCHANGED row

FailIrrecoverablyLost(s, k) ==
    /\ ~FailsIrrecoverably(s, k)
    /\ ~AlreadyExhausted(s, k)
    /\ UNCHANGED row

-------------------------------------------------------------------------------
(* The queues.  The job id is (stage, invoice, storage key), so a queue    *)
(* holds at most one job per key.  A waiting job may be delayed by the     *)
(* backoff; "made" is attemptsMade, "stalls" the times its worker died.    *)
Job == [state : {"none", "waiting", "active", "failed"},
        made : 0 .. Attempts, stalls : 0 .. MaxStalls]

NoJob == [state |-> "none", made |-> 0, stalls |-> 0]

FreshJob == [state |-> "waiting", made |-> 0, stalls |-> 0]

(* Queue.add: an id that is present in any state makes it a no-op.         *)
Enqueued(jobs, s, k) ==
    IF jobs[s][k].state = "none" THEN [jobs EXCEPT ![s][k] = FreshJob] ELSE jobs

Enqueue(s, k) == job' = Enqueued(job, s, k)

(* The dead letters of a key, oldest first: the stages that have one.      *)
HasDeadLetter(s, k) ==
    \E i \in DOMAIN deadLetters[k] : deadLetters[k][i] = s

(* moveToDlq: a stage keeps one entry per key, with its first failure time. *)
MoveToDlq(s, k) ==
    deadLetters' = IF HasDeadLetter(s, k) THEN deadLetters
                   ELSE [deadLetters EXCEPT ![k] = Append(@, s)]

StoreTypeOK ==
    /\ row \in Row
    /\ job \in [Stages -> [Keys -> Job]]
    /\ deadLetters \in [Keys -> Seq(Stages)]
==============================================================================
