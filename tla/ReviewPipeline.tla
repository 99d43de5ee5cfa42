---------------------------- MODULE ReviewPipeline ----------------------------
(***************************************************************************)
(* The people in front of the pipeline.  A reviewer opens an invoice that  *)
(* needs review, is given a lifecycle token, and submits a correction with *)
(* it; an accepted correction is generated again.  A retrier asks for the  *)
(* dead-lettered job of a failed invoice to run once more.  Both are HTTP  *)
(* requests with several statements each, running beside the workers, the  *)
(* listeners and each other, and both die with the process.                *)
(***************************************************************************)
EXTENDS StagePipeline

CONSTANTS Reviewers,   \* browser tabs that may submit a correction
          Retriers,    \* browser tabs that may ask for a retry
          MaxVersion,  \* bound on the corrections of one lifecycle
          MaxRetries   \* bound on the accepted retry requests

ASSUME ReviewAssumption ==
    /\ MaxVersion \in Nat
    /\ MaxRetries \in Nat

VARIABLES reviewer,  \* per reviewer: what the tab shows, the request it sent
          retrier,   \* per retrier: the request it sent
          retries    \* retry requests so far

people == <<reviewer, retrier, retries>>

allVars == <<vars, people>>

(* "seen" is the row as the tab shows it.  The lifecycle token that came   *)
(* with it is a MAC over, among others, its storage key and its version:   *)
(* whoever holds the token can only be answered for that pair.             *)
Nothing == [NewRow(1) EXCEPT !.key = 0]

Reviewer == [pc : {"idle", "publish", "rollback"},
             seen : Row \cup {Nothing},
             key : Keys]      \* the storage key the request works on

Retrier == [pc : {"idle", "clean", "reopen", "publish", "drop"},
            stage : Stages, key : Keys]

ReviewTypeOK ==
    /\ TypeOK
    /\ reviewer \in [Reviewers -> Reviewer]
    /\ retrier \in [Retriers -> Retrier]
    /\ retries \in Nat

NoRetry == [pc |-> "idle", stage |-> "generation", key |-> 1]

ReviewInit ==
    /\ Init
    /\ reviewer = [u \in Reviewers |-> [pc |-> "idle", seen |-> Nothing, key |-> 1]]
    /\ retrier = [u \in Retriers |-> NoRetry]
    /\ retries = 0

-------------------------------------------------------------------------------
(* The reviewer.                                                           *)
Reviewing(u, pc) == Serving /\ reviewer[u].pc = pc

(* A bug: a token that does not name the lifecycle.                        *)
TokenisedVersion(r) == <<r.version>>

Tokenised(r) == <<r.key, r.version>>

(* detail mints a token only while the invoice needs review.               *)
OpenReview(u) ==
    /\ Reviewing(u, "idle")
    /\ row.live /\ row.status = "NEEDS_REVIEW"
    /\ reviewer[u].seen # row
    /\ reviewer' = [reviewer EXCEPT ![u].seen = row]
    /\ UNCHANGED <<vars, retrier, retries>>

(* review checks the token against the row, validates, and stores the      *)
(* correction if the row still carries that very version.                  *)
Corrects(u, to, findings) ==
    /\ Holds(row.key, {"NEEDS_REVIEW"})
    /\ Tokenised(reviewer[u].seen) = Tokenised(row)
    /\ row.version < MaxVersion
    /\ row' = [row EXCEPT !.status = to, !.version = @ + 1,
                          !.findings = findings, !.documents = <<>>]

(* A correction that is still wrong is answered with the next token.       *)
Submit(u) ==
    /\ Reviewing(u, "idle")
    /\ \/ /\ Corrects(u, "GENERATING", {})
          /\ reviewer' = [reviewer EXCEPT
                ![u] = [pc |-> "publish", seen |-> Nothing, key |-> row.key]]
       \/ /\ Corrects(u, "NEEDS_REVIEW", {"rule"})
          /\ reviewer' = [reviewer EXCEPT ![u].seen = row']
    /\ UNCHANGED <<job, deadLetters, process, budget, retrier, retries>>

(* 409: somebody else was faster, or the lifecycle is over.                *)
SubmitRefused(u) ==
    /\ Reviewing(u, "idle")
    /\ reviewer[u].seen # Nothing
    /\ \/ Tokenised(reviewer[u].seen) # Tokenised(row)
       \/ ~Holds(row.key, {"NEEDS_REVIEW"})
    /\ reviewer' = [reviewer EXCEPT ![u].seen = Nothing]
    /\ UNCHANGED <<vars, retrier, retries>>

EnqueueGeneration(u) ==
    /\ Reviewing(u, "publish")
    /\ Enqueue("generation", reviewer[u].key)
    /\ reviewer' = [reviewer EXCEPT ![u].pc = "idle", ![u].key = 1]
    /\ UNCHANGED <<row, deadLetters, process, budget, retrier, retries>>

EnqueueGenerationFails(u) ==
    /\ Reviewing(u, "publish")
    /\ \/ Fault("rejected") /\ UNCHANGED job
       \/ Fault("uncertain") /\ Enqueue("generation", reviewer[u].key)
    /\ reviewer' = [reviewer EXCEPT ![u].pc = "rollback"]
    /\ UNCHANGED <<row, deadLetters, process, retrier, retries>>

(* A bug: back to review, whoever has the row by now.                      *)
ReturnBlindly(u) ==
    /\ Reviewing(u, "rollback")
    /\ row' = [row EXCEPT !.status = "NEEDS_REVIEW"]
    /\ reviewer' = [reviewer EXCEPT ![u].pc = "idle", ![u].key = 1]
    /\ UNCHANGED <<job, deadLetters, process, budget, retrier, retries>>

(* 503: back to review, unless a worker has claimed the row by now.        *)
ReturnToReview(u) ==
    LET k == reviewer[u].key
    IN  /\ Reviewing(u, "rollback")
        /\ \/ Transition(k, "GENERATING", "NEEDS_REVIEW")
           \/ ~Holds(k, {"GENERATING"}) /\ UNCHANGED row
        /\ reviewer' = [reviewer EXCEPT ![u].pc = "idle", ![u].key = 1]
        /\ UNCHANGED <<job, deadLetters, process, budget, retrier, retries>>

-------------------------------------------------------------------------------
(* The retrier: retryDeadLetter and retryFromDlq.                          *)
Retrying(u, pc) == Serving /\ retrier[u].pc = pc

(* Of several dead letters the most recent one is retried.                 *)
StartRetry(u) ==
    LET letters == deadLetters[row.key]
    IN  /\ Retrying(u, "idle")
        /\ retries < MaxRetries
        /\ row.live
        /\ letters # <<>>
        /\ retrier' = [retrier EXCEPT ![u] =
              [pc |-> "clean", stage |-> letters[Len(letters)], key |-> row.key]]
        /\ retries' = retries + 1
        /\ UNCHANGED <<vars, reviewer>>

(* The retained failed job goes first: a startup would fail the row again. *)
CleanFailedJob(u) ==
    LET s == retrier[u].stage
        k == retrier[u].key
    IN  /\ Retrying(u, "clean")
        /\ job' = IF job[s][k].state = "failed" THEN [job EXCEPT ![s][k] = NoJob]
                  ELSE job
        /\ retrier' = [retrier EXCEPT ![u].pc = "reopen"]
        /\ UNCHANGED <<row, deadLetters, process, budget, reviewer, retries>>

(* reopenAfterDeadLetter takes any failure of this lifecycle back.         *)
Reopen(u) ==
    LET s == retrier[u].stage
        k == retrier[u].key
    IN  /\ Retrying(u, "reopen")
        /\ \/ /\ Holds(k, {"FAILED"})
              /\ row' = [row EXCEPT !.status = ReopenTo[s], !.failure = "none"]
              /\ retrier' = [retrier EXCEPT ![u].pc = "publish"]
           \/ /\ Holds(k, {ReopenTo[s]})
              /\ retrier' = [retrier EXCEPT ![u].pc = "publish"]
              /\ UNCHANGED row
           \/ /\ ~Holds(k, {"FAILED", ReopenTo[s]})
              /\ retrier' = [retrier EXCEPT ![u].pc = "drop"]
              /\ UNCHANGED row
        /\ UNCHANGED <<job, deadLetters, process, budget, reviewer, retries>>

(* A bug: a job that is gone is taken for one that ran.                    *)
RepublishFailed(s, k) ==
    job' = IF job[s][k].state = "failed" THEN [job EXCEPT ![s][k] = FreshJob] ELSE job

(* A job that is there and has not failed is a publication that happened.  *)
RepublishRetried(s, k) ==
    job' = IF WillRun(s, k) THEN job ELSE [job EXCEPT ![s][k] = FreshJob]

PublishRetry(u) ==
    /\ Retrying(u, "publish")
    /\ RepublishRetried(retrier[u].stage, retrier[u].key)
    /\ retrier' = [retrier EXCEPT ![u].pc = "drop"]
    /\ UNCHANGED <<row, deadLetters, process, budget, reviewer, retries>>

(* The dead letter stays, so that the user can ask again.                  *)
PublishRetryFails(u) ==
    /\ Retrying(u, "publish")
    /\ \/ Fault("rejected") /\ UNCHANGED job
       \/ Fault("uncertain") /\ RepublishRetried(retrier[u].stage, retrier[u].key)
    /\ retrier' = [retrier EXCEPT ![u] = NoRetry]
    /\ UNCHANGED <<row, deadLetters, process, reviewer, retries>>

Without(letters, s) ==
    LET pos == CHOOSE i \in DOMAIN letters : letters[i] = s
    IN  [i \in 1 .. Len(letters) - 1 |-> IF i < pos THEN letters[i] ELSE letters[i + 1]]

(* The removal goes by job id, whichever entry carries it now.             *)
DropDeadLetter(u) ==
    LET s == retrier[u].stage
        k == retrier[u].key
    IN  /\ Retrying(u, "drop")
        /\ deadLetters' = IF HasDeadLetter(s, k)
                          THEN [deadLetters EXCEPT ![k] = Without(@, s)]
                          ELSE deadLetters
        /\ retrier' = [retrier EXCEPT ![u] = NoRetry]
        /\ UNCHANGED <<row, job, process, budget, reviewer, retries>>

-------------------------------------------------------------------------------
(* The tokens in the browsers outlive the process, the requests do not.    *)
RequestsDie ==
    /\ reviewer' = [u \in Reviewers |-> [reviewer[u] EXCEPT !.pc = "idle", !.key = 1]]
    /\ retrier' = [u \in Retriers |-> NoRetry]
    /\ UNCHANGED retries

ReviewerStep(u) ==
    \/ OpenReview(u) \/ Submit(u) \/ SubmitRefused(u)
    \/ EnqueueGeneration(u) \/ EnqueueGenerationFails(u) \/ ReturnToReview(u)

RetrierStep(u) ==
    \/ StartRetry(u) \/ CleanFailedJob(u) \/ Reopen(u)
    \/ PublishRetry(u) \/ PublishRetryFails(u) \/ DropDeadLetter(u)

ReviewNext ==
    \/ (ProcessStep \/ Expire \/ UploadStep) /\ UNCHANGED people
    \/ \E s \in Stages : Park(s) /\ UNCHANGED people
    \/ Crash /\ RequestsDie
    \/ \E u \in Reviewers : ReviewerStep(u)
    \/ \E u \in Retriers : RetrierStep(u)

ReviewSpec == ReviewInit /\ [][ReviewNext]_allVars

(* A request that was accepted runs on; nobody has to send one.  The       *)
(* worker that finds its stage given up goes on like any other.            *)
RequestFairness ==
    /\ \A s \in Stages : WF_vars(Park(s))
    /\ \A u \in Reviewers : WF_allVars(EnqueueGeneration(u) \/ ReturnToReview(u))
    /\ \A u \in Retriers : WF_allVars(CleanFailedJob(u) \/ Reopen(u)
                                        \/ PublishRetry(u) \/ DropDeadLetter(u))

ReviewFairSpec == ReviewSpec /\ Fairness /\ RequestFairness

-------------------------------------------------------------------------------
(* A correction is stored only over the very invoice its author looked at: *)
(* not over another correction, other findings, or a later lifecycle.      *)
CorrectsWhatWasSeen ==
    [][\A u \in Reviewers :
          row'.version > row.version /\ reviewer'[u] # reviewer[u]
          => reviewer[u].seen = row]_allVars

(* The document of a READY invoice was generated from its last correction. *)
LatestCorrectionGenerated ==
    row.status = "READY" =>
        \A i \in DOMAIN row.documents : row.documents[i].version = row.version

(* As NoStrandedInvoice, with the requests that still act on the invoice.  *)
DrivenByRequest(s, k) ==
    \/ s = "generation" /\ \E u \in Reviewers : /\ reviewer[u].key = k
                                                /\ reviewer[u].pc # "idle"
    \/ \E u \in Retriers : /\ retrier[u].stage = s
                           /\ retrier[u].key = k
                           /\ retrier[u].pc = "publish"

NoStrandedReview ==
    \A s \in Stages : row.live /\ row.status \in InFlight(s) /\ ~AwaitsUpload =>
        Driven(s, row.key) \/ DrivenByRequest(s, row.key)

(* The one thing that can strand an invoice is a job that BullMQ gave up   *)
(* on and that kept its id: every enqueue after it is taken for a          *)
(* duplicate.                                                              *)
OnlyFailedJobsStrand ==
    \A s \in Stages : row.live /\ row.status \in InFlight(s) /\ ~AwaitsUpload =>
        \/ Driven(s, row.key) \/ DrivenByRequest(s, row.key)
        \/ job[s][row.key].state = "failed"

(* As ExhaustedIsRecoverable, while retries run: what a retry takes away   *)
(* the same retry, or the job it published, puts back.                     *)
RetriesKeepRecoverable ==
    \A s \in Stages : AlreadyExhausted(s, row.key) =>
        \/ HasDeadLetter(s, row.key)
        \/ job[s][row.key].state # "none"
        \/ \E u \in Retriers : /\ retrier[u].pc \in {"reopen", "publish"}
                               /\ retrier[u].stage = s
                               /\ retrier[u].key = row.key

==============================================================================
