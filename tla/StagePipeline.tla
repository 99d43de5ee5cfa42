----------------------------- MODULE StagePipeline -----------------------------
(***************************************************************************)
(* The API process drives an invoice through its four stages.  Each stage  *)
(* has one worker that takes a job, decides from a snapshot of the row     *)
(* whether the job still concerns it, claims the row, works, commits and   *)
(* hands over to the next stage.  A job that throws is tried again up to   *)
(* Attempts times; an exhausted job fails the invoice and is parked in a   *)
(* dead-letter queue by the worker's "failed" listener.  The process may   *)
(* die between any two steps: jobs that were running are found stalled,    *)
(* and the startup reconcilers repair the rest.  An upload makes the row,  *)
(* stores the file and enqueues the first job in three steps of its own.   *)
(*                                                                         *)
(* One step of this module is one write to PostgreSQL or Redis with the    *)
(* reads that decide it, or a read whose result is used after other steps. *)
(***************************************************************************)
EXTENDS InvoiceStore

CONSTANTS FirstStage,     \* the stage the invoice is in at first
          MaxCrashes,     \* bound on process deaths
          BootOrder,      \* the order in which the stages are reconciled
          MaxFaults,      \* bound on the failing calls of Faults
          Repeats,        \* whether a PDF that is still UPLOADED may come again
          Faults          \* which calls may fail without BullMQ retrying them:
                          \* an enqueue "rejected", an enqueue that took effect
                          \* and still threw "uncertain", a "listener"

ASSUME PipelineAssumption ==
    /\ FirstStage \in Stages
    /\ MaxCrashes \in Nat
    /\ MaxFaults \in Nat
    /\ BootOrder \in [1 .. 4 -> Stages]
    /\ \A s \in Stages : \E i \in 1 .. 4 : BootOrder[i] = s
    /\ Repeats \in BOOLEAN
    /\ Faults \subseteq {"rejected", "uncertain", "listener"}

VARIABLES worker,     \* per stage: where its worker is, for which job
          failing,    \* per stage and key: the "failed" listener, if it runs
          completing, \* per key: the generation worker's "completed" listener
          boot,       \* the process: down, reconciling at startup, or done
          upload,     \* per key: the request that uploads its file, the file
          budget      \* crashes and Redis faults so far

process == <<worker, failing, completing, boot, upload>>

vars == <<store, process, budget>>

-------------------------------------------------------------------------------
Worker == [pc : {"idle", "park", "claim", "work", "publish",
                 "rollback", "throw", "finish"},
           key : Keys,
           version : Nat]     \* reviewVersion of the snapshot it works from

Boot == [pc : {"down", "next", "failed", "park", "publish", "done"},
         at : 1 .. 4,        \* the position in BootOrder being reconciled
         todo : SUBSET Keys, \* failed jobs of the stage still to look at
         key : Keys]         \* the job or row of the next Redis call

(* A request saves the file and enqueues the job of its key; the file of a *)
(* key outlives the request and the process.                               *)
Upload == [pc : {"none", "save", "enqueue"}, stored : BOOLEAN]

Up == boot.pc # "down"

Serving == boot.pc = "done"   \* HTTP is served once every reconciler returned

AtRest == [pc |-> "idle", key |-> 1, version |-> 0]   \* a worker with no job

Idle == [s \in Stages |-> AtRest]

Booted(pc) == [pc |-> pc, at |-> 1, todo |-> {}, key |-> 1]

Booting == BootOrder[boot.at]   \* the stage being reconciled

Silent == [s \in Stages |-> [k \in Keys |-> "none"]]

TypeOK ==
    /\ StoreTypeOK
    /\ worker \in [Stages -> Worker]
    /\ failing \in [Stages -> [Keys -> {"none", "fail", "park"}]]
    /\ completing \in [Keys -> {"none", "check", "publish"}]
    /\ boot \in Boot
    /\ upload \in [Keys -> Upload]
    /\ budget \in [crashes : Nat, faults : Nat]

(* The row was just created by an upload, if FirstStage is text extraction; *)
(* else a handoff has just published the first job.                        *)
Init ==
    /\ row = [NewRow(1) EXCEPT !.status = ClaimFrom[FirstStage]]
    /\ job = [s \in Stages |-> [k \in Keys |->
                 IF s = FirstStage /\ k = 1 /\ s # "text-extraction" THEN FreshJob
                 ELSE NoJob]]
    /\ upload = [k \in Keys |->
          IF k # 1 THEN [pc |-> "none", stored |-> FALSE]
          ELSE IF FirstStage = "text-extraction" THEN [pc |-> "save", stored |-> FALSE]
          ELSE [pc |-> "none", stored |-> TRUE]]
    /\ deadLetters = [k \in Keys |-> <<>>]
    /\ worker = Idle
    /\ failing = Silent
    /\ completing = [k \in Keys |-> "none"]
    /\ boot = Booted("done")
    /\ budget = [crashes |-> 0, faults |-> 0]

At(s, pc) == Up /\ worker[s].pc = pc

Goto(s, pc) == worker' = [worker EXCEPT ![s].pc = pc]

Rest(s) == worker' = [worker EXCEPT ![s] = AtRest]

Fault(kind) ==
    /\ kind \in Faults
    /\ budget.faults < MaxFaults
    /\ budget' = [budget EXCEPT !.faults = @ + 1]

-------------------------------------------------------------------------------
(* The worker of a stage.                                                  *)

(* A bug: any status of the lifecycle is accepted.                         *)
AcceptAnyStatus(s, k) == IF Holds(k, Status) THEN "claim" ELSE "finish"

(* What acceptStageJob and claimStage make of the row: the job resumes a   *)
(* claim, must claim, was exhausted already, or does not concern the row.  *)
Accept(s, k) ==
    CASE Holds(k, {ClaimTo[s]})   -> "work"
      [] Holds(k, {ClaimFrom[s]}) -> "claim"
      [] AlreadyExhausted(s, k)   -> "park"
      [] OTHER                    -> "finish"

(* BullMQ gives the idle worker a job that waits, and the row is read; all *)
(* that follows is decided and computed from this copy.                    *)
Take(s, k) ==
    /\ At(s, "idle")
    /\ job[s][k].state = "waiting"
    /\ job' = [job EXCEPT ![s][k].state = "active"]
    /\ worker' = [worker EXCEPT ![s] =
           [pc |-> Accept(s, k), key |-> k,
            version |-> IF s = "generation" THEN row.version ELSE 0]]
    /\ UNCHANGED <<row, deadLetters, failing, completing, boot, upload, budget>>

(* The stage was given up before this job: it goes to the dead letters at  *)
(* once.  A failed job keeps its id until somebody asks for a retry, so    *)
(* only with retries does the worker get here: the step belongs to the     *)
(* next-state relation of ReviewPipeline.                                  *)
Park(s) ==
    /\ At(s, "park")
    /\ MoveToDlq(s, worker[s].key)
    /\ Goto(s, "finish")
    /\ UNCHANGED <<row, job, failing, completing, boot, upload, budget>>

Claim(s) ==
    LET k == worker[s].key
    IN  /\ At(s, "claim")
        /\ \/ Transition(k, ClaimFrom[s], ClaimTo[s]) /\ Goto(s, "work")
           \/ ~Holds(k, {ClaimFrom[s]}) /\ UNCHANGED row /\ Goto(s, "finish")
        /\ UNCHANGED <<job, deadLetters, failing, completing, boot, upload, budget>>

(* Text and data extraction: the result is stored with the next status, or *)
(* the content is unusable and the invoice fails for good.  Reading a file *)
(* that is not there throws.                                               *)
Extract(s) ==
    LET k == worker[s].key
    IN  /\ s \in {"text-extraction", "data-extraction"}
        /\ At(s, "work")
        /\ s = "text-extraction" => upload[k].stored
        /\ \/ Transition(k, ClaimTo[s], ClaimFrom[NextStage[s]]) /\ Goto(s, "publish")
           \/ TransitionToFailed(k, ClaimTo[s]) /\ Goto(s, "finish")
           \/ ~Holds(k, {ClaimTo[s]}) /\ UNCHANGED row /\ Goto(s, "finish")
        /\ UNCHANGED <<job, deadLetters, failing, completing, boot, upload, budget>>

(* Any failed ERROR finding routes the invoice to review.                  *)
Validate ==
    LET s == "validation"
        k == worker[s].key
    IN  /\ At(s, "work")
        /\ \/ CompleteValidation(k, "GENERATING", {}) /\ Goto(s, "publish")
           \/ CompleteValidation(k, "NEEDS_REVIEW", {"rule"}) /\ Goto(s, "finish")
           \/ ~Holds(k, {"VALIDATING"}) /\ UNCHANGED row /\ Goto(s, "finish")
        /\ UNCHANGED <<job, deadLetters, failing, completing, boot, upload, budget>>

(* The document is generated from the snapshot; KoSIT says if it is valid. *)
Generate ==
    LET s == "generation"
        k == worker[s].key
    IN  /\ At(s, "work")
        /\ \/ RejectGeneration(k)
           \/ \E valid \in BOOLEAN : CompleteGeneration(k, worker[s].version, valid)
           \/ ~Holds(k, {"GENERATING_DOCUMENT"}) /\ UNCHANGED row
        /\ Goto(s, "finish")
        /\ UNCHANGED <<job, deadLetters, failing, completing, boot, upload, budget>>

(* publishNextStage.                                                       *)
Publish(s) ==
    /\ s \in Publishers
    /\ At(s, "publish")
    /\ Enqueue(NextStage[s], worker[s].key)
    /\ Goto(s, "finish")
    /\ UNCHANGED <<row, deadLetters, failing, completing, boot, upload, budget>>

PublishFails(s) ==
    /\ s \in Publishers
    /\ At(s, "publish")
    /\ \/ Fault("rejected") /\ UNCHANGED job
       \/ Fault("uncertain") /\ Enqueue(NextStage[s], worker[s].key)
    /\ Goto(s, "rollback")
    /\ UNCHANGED <<row, deadLetters, failing, completing, boot, upload>>

(* Rolling back re-raises the error; losing the row to a consumer does not. *)
Rollback(s) ==
    LET k == worker[s].key
        published == ClaimFrom[NextStage[s]]
    IN  /\ s \in Publishers
        /\ At(s, "rollback")
        /\ \/ Transition(k, published, ClaimTo[s]) /\ Goto(s, "throw")
           \/ ~Holds(k, {published}) /\ UNCHANGED row /\ Goto(s, "finish")
        /\ UNCHANGED <<job, deadLetters, failing, completing, boot, upload, budget>>

(* Two bugs: one attempt too many, failed jobs are not kept.               *)
TryAgainOnceMore(s, k) ==
    LET made == job[s][k].made + 1
        state == IF made <= Attempts THEN "waiting" ELSE "failed"
    IN  /\ job' = [job EXCEPT ![s][k] = [@ EXCEPT !.made = made, !.state = state]]
        /\ failing' = IF state = "failed" THEN [failing EXCEPT ![s][k] = "fail"]
                      ELSE failing

TryAgainForgetful(s, k) ==
    LET made == job[s][k].made + 1
    IN  IF made < Attempts
        THEN /\ job' = [job EXCEPT ![s][k] = [@ EXCEPT !.made = made, !.state = "waiting"]]
             /\ UNCHANGED failing
        ELSE /\ job' = [job EXCEPT ![s][k] = NoJob]
             /\ failing' = [failing EXCEPT ![s][k] = "fail"]

(* A job that throws is tried again, or BullMQ gives up on it, keeps it    *)
(* among the failed jobs and tells the listener.                           *)
TryAgain(s, k) ==
    LET made == job[s][k].made + 1
        state == IF made < Attempts THEN "waiting" ELSE "failed"
    IN  /\ job' = [job EXCEPT ![s][k] = [@ EXCEPT !.made = made, !.state = state]]
        /\ failing' = IF state = "failed" THEN [failing EXCEPT ![s][k] = "fail"]
                      ELSE failing

(* Storage, the provider, KoSIT, PostgreSQL or Redis fails transiently, or *)
(* a rollback raises the enqueue error again.                              *)
Throw(s) ==
    /\ \E pc \in {"park", "claim", "work", "throw"} : At(s, pc)
    /\ TryAgain(s, worker[s].key)
    /\ Rest(s)
    /\ UNCHANGED <<row, deadLetters, completing, boot, upload, budget>>

(* The first read of the row fails.                                        *)
TakeThrows(s, k) ==
    /\ At(s, "idle")
    /\ job[s][k].state = "waiting"
    /\ TryAgain(s, k)
    /\ UNCHANGED <<row, deadLetters, worker, completing, boot, upload, budget>>

(* A finished job is removed; only generation listens for "completed".     *)
Finish(s) ==
    LET k == worker[s].key
    IN  /\ At(s, "finish")
        /\ job' = [job EXCEPT ![s][k] = NoJob]
        /\ Rest(s)
        /\ completing' = IF s = "generation" THEN [completing EXCEPT ![k] = "check"]
                         ELSE completing
        /\ UNCHANGED <<row, deadLetters, failing, boot, upload, budget>>

-------------------------------------------------------------------------------
(* finalizeFailure, run by the "failed" listener.                          *)
FinalizeFail(s, k) ==
    /\ Up
    /\ failing[s][k] = "fail"
    /\ \/ FailIrrecoverably(s, k) /\ failing' = [failing EXCEPT ![s][k] = "park"]
       \/ FailIrrecoverablyLost(s, k) /\ failing' = [failing EXCEPT ![s][k] = "none"]
    /\ UNCHANGED <<job, deadLetters, worker, completing, boot, upload, budget>>

FinalizePark(s, k) ==
    /\ Up
    /\ failing[s][k] = "park"
    /\ MoveToDlq(s, k)
    /\ failing' = [failing EXCEPT ![s][k] = "none"]
    /\ UNCHANGED <<row, job, worker, completing, boot, upload, budget>>

(* An error while finalizing is logged and left to the next startup.       *)
FinalizeFails(s, k) ==
    /\ Up
    /\ failing[s][k] # "none"
    /\ Fault("listener")
    /\ failing' = [failing EXCEPT ![s][k] = "none"]
    /\ UNCHANGED <<store, worker, completing, boot, upload>>

(* A bug: nobody looks whether a regeneration was asked for.               *)
CheckRegenerationNever(k) ==
    /\ Up
    /\ completing[k] = "check"
    /\ completing' = [completing EXCEPT ![k] = "none"]
    /\ UNCHANGED <<store, worker, failing, boot, upload, budget>>

(* onCompleted of the generation worker: a correction may have asked for a *)
(* regeneration while the job that rejected the last one was finishing.    *)
CheckRegeneration(k) ==
    /\ Up
    /\ completing[k] = "check"
    /\ completing' = [completing EXCEPT
                         ![k] = IF Holds(k, {"GENERATING"}) THEN "publish" ELSE "none"]
    /\ UNCHANGED <<store, worker, failing, boot, upload, budget>>

Republish(k) ==
    /\ Up
    /\ completing[k] = "publish"
    /\ Enqueue("generation", k)
    /\ completing' = [completing EXCEPT ![k] = "none"]
    /\ UNCHANGED <<row, deadLetters, worker, failing, boot, upload, budget>>

(* An error there is logged too.                                           *)
RepublishFails(k) ==
    /\ Up
    /\ completing[k] # "none"
    /\ Fault("listener")
    /\ completing' = [completing EXCEPT ![k] = "none"]
    /\ UNCHANGED <<store, worker, failing, boot, upload>>

-------------------------------------------------------------------------------
(* Death and startup.                                                      *)
Crash ==
    /\ Up
    /\ budget.crashes < MaxCrashes
    /\ budget' = [budget EXCEPT !.crashes = @ + 1]
    /\ worker' = Idle
    /\ failing' = Silent
    /\ completing' = [k \in Keys |-> "none"]
    /\ boot' = Booted("down")
    /\ upload' = [k \in Keys |-> [upload[k] EXCEPT !.pc = "none"]]
    /\ UNCHANGED store

Restart ==
    /\ boot.pc = "down"
    /\ boot' = Booted("next")
    /\ UNCHANGED <<store, worker, failing, completing, upload, budget>>

(* Two bugs: a job is taken from a worker that is alive; a job that stalled *)
(* too often is not recognised as finished because it has attempts left.   *)
RecoverRunning(s, k) ==
    /\ Up
    /\ job[s][k].state = "active"
    /\ job[s][k].stalls < MaxStalls
    /\ job' = [job EXCEPT ![s][k] =
                  [@ EXCEPT !.state = "waiting", !.stalls = @ + 1]]
    /\ UNCHANGED <<row, deadLetters, worker, failing, completing, boot, upload, budget>>

RecoverUnfinished(s, k) ==
    /\ Up
    /\ job[s][k].state = "active"
    /\ ~(worker[s].pc # "idle" /\ worker[s].key = k)
    /\ job' = [job EXCEPT ![s][k] =
                  IF @.stalls < MaxStalls
                  THEN [@ EXCEPT !.state = "waiting", !.stalls = @ + 1]
                  ELSE [@ EXCEPT !.state = "failed"]]
    /\ UNCHANGED <<row, deadLetters, worker, failing, completing, boot, upload, budget>>

Requeued(j) == [j EXCEPT !.state = "waiting", !.stalls = @ + 1]

(* A job that is active but has no worker is returned to the queue, or     *)
(* failed like an exhausted one when that happened too often.              *)
RecoverStalled(s, k) ==
    /\ Up
    /\ job[s][k].state = "active"
    /\ ~(worker[s].pc # "idle" /\ worker[s].key = k)
    /\ IF job[s][k].stalls < MaxStalls
       THEN /\ job' = [job EXCEPT ![s][k] = Requeued(@)]
            /\ UNCHANGED failing
       ELSE /\ job' = [job EXCEPT ![s][k].state = "failed"]
            /\ failing' = [failing EXCEPT ![s][k] = "fail"]
    /\ UNCHANGED <<row, deadLetters, worker, completing, boot, upload, budget>>

(* A bug: the failed jobs are not looked at.                               *)
BootPastFailedJobs ==
    /\ boot.pc = "next"
    /\ boot' = [boot EXCEPT !.pc = "failed"]
    /\ UNCHANGED <<store, worker, failing, completing, upload, budget>>

(* The reconcilers of the stages run one after the other, beside the       *)
(* workers.  Each first looks at the failed jobs of its queue.             *)
BootFailedJobs ==
    /\ boot.pc = "next"
    /\ boot' = [boot EXCEPT !.pc = "failed",
                  !.todo = {k \in Keys : job[Booting][k].state = "failed"}]
    /\ UNCHANGED <<store, worker, failing, completing, upload, budget>>

BootFail(k) ==
    /\ boot.pc = "failed"
    /\ k \in boot.todo
    /\ \/ /\ FailIrrecoverably(Booting, k)
          /\ boot' = [boot EXCEPT !.pc = "park", !.key = k, !.todo = @ \ {k}]
       \/ /\ FailIrrecoverablyLost(Booting, k)
          /\ boot' = [boot EXCEPT !.todo = @ \ {k}]
    /\ UNCHANGED <<job, deadLetters, worker, failing, completing, upload, budget>>

BootPark ==
    /\ boot.pc = "park"
    /\ MoveToDlq(Booting, boot.key)
    /\ boot' = [boot EXCEPT !.pc = "failed", !.key = 1]
    /\ UNCHANGED <<row, job, worker, failing, completing, upload, budget>>

Reconciled ==
    IF boot.at = 4 THEN Booted("done")
    ELSE [Booted("next") EXCEPT !.at = boot.at + 1]

(* An upload that stored no file is left for the user to repeat.           *)
AwaitsUpload == row.status = "UPLOADED" /\ ~upload[row.key].stored

(* A bug: only claimed rows are looked for.                                *)
BootScanClaimed ==
    /\ boot.pc = "failed"
    /\ boot.todo = {}
    /\ boot' = IF row.live /\ row.status = ClaimTo[Booting] /\ ~AwaitsUpload
               THEN [boot EXCEPT !.pc = "publish", !.key = row.key]
               ELSE Reconciled
    /\ UNCHANGED <<store, worker, failing, completing, upload, budget>>

(* A bug: every UPLOADED row is left to its user, with its file or not.    *)
BootScanPastUploads ==
    /\ boot.pc = "failed"
    /\ boot.todo = {}
    /\ boot' = IF row.live /\ row.status \in InFlight(Booting) \ {"UPLOADED"}
               THEN [boot EXCEPT !.pc = "publish", !.key = row.key]
               ELSE Reconciled
    /\ UNCHANGED <<store, worker, failing, completing, upload, budget>>

(* Then it looks for a row in one of the stage's two statuses; one that is *)
(* still UPLOADED needs its file.                                          *)
BootScan ==
    /\ boot.pc = "failed"
    /\ boot.todo = {}
    /\ boot' = IF row.live /\ row.status \in InFlight(Booting) /\ ~AwaitsUpload
               THEN [boot EXCEPT !.pc = "publish", !.key = row.key]
               ELSE Reconciled
    /\ UNCHANGED <<store, worker, failing, completing, upload, budget>>

BootPublish ==
    /\ boot.pc = "publish"
    /\ Enqueue(Booting, boot.key)
    /\ boot' = Reconciled
    /\ UNCHANGED <<row, deadLetters, worker, failing, completing, upload, budget>>

-------------------------------------------------------------------------------
(* The rest of the world.                                                  *)

(* expiresAt passes, whatever the invoice is doing.                        *)
Expire ==
    /\ row.live
    /\ row' = [row EXCEPT !.live = FALSE]
    /\ UNCHANGED <<job, deadLetters, process, budget>>

(* A bug: the documents of the last lifecycle stay.                        *)
RenewOver ==
    /\ Serving
    /\ ~row.live
    /\ row.key + 1 \in Keys
    /\ row' = [NewRow(row.key + 1) EXCEPT !.documents = row.documents]
    /\ upload' = [upload EXCEPT ![row.key].stored = FALSE, ![row.key + 1].pc = "save"]
    /\ UNCHANGED <<job, deadLetters, worker, failing, completing, boot, budget>>

(* The PDF of an expired row is uploaded again: resurrect deletes its file *)
(* and gives the row a new storage key and everything a new row has.       *)
Renew ==
    /\ Serving
    /\ ~row.live
    /\ row.key + 1 \in Keys
    /\ row' = NewRow(row.key + 1)
    /\ upload' = [upload EXCEPT ![row.key].stored = FALSE, ![row.key + 1].pc = "save"]
    /\ UNCHANGED <<job, deadLetters, worker, failing, completing, boot, budget>>

(* The PDF of a live row is uploaded again: ingest goes on with it only if *)
(* it is still UPLOADED.  A bound: one request per key at a time; that two *)
(* may meet is the subject of Retention.                                   *)
RepeatUpload ==
    /\ Repeats
    /\ Serving
    /\ row.live /\ row.status = "UPLOADED"
    /\ upload[row.key].pc = "none"
    /\ upload' = [upload EXCEPT ![row.key].pc = "save"]
    /\ UNCHANGED <<store, worker, failing, completing, boot, budget>>

(* The file is stored, or the request ends with 503 and leaves the row.    *)
SaveFile(k) ==
    /\ upload[k].pc = "save"
    /\ \/ upload' = [upload EXCEPT ![k] = [pc |-> "enqueue", stored |-> TRUE]]
       \/ upload' = [upload EXCEPT ![k].pc = "none"]
    /\ UNCHANGED <<store, worker, failing, completing, boot, budget>>

EnqueueUpload(k) ==
    /\ upload[k].pc = "enqueue"
    /\ Enqueue("text-extraction", k)
    /\ upload' = [upload EXCEPT ![k].pc = "none"]
    /\ UNCHANGED <<row, deadLetters, worker, failing, completing, boot, budget>>

(* Nothing is rolled back: the row stays UPLOADED, with its file.          *)
EnqueueUploadFails(k) ==
    /\ upload[k].pc = "enqueue"
    /\ \/ Fault("rejected") /\ UNCHANGED job
       \/ Fault("uncertain") /\ Enqueue("text-extraction", k)
    /\ upload' = [upload EXCEPT ![k].pc = "none"]
    /\ UNCHANGED <<row, deadLetters, worker, failing, completing, boot>>

WorkerStep(s) ==
    \/ \E k \in Keys : Take(s, k)
    \/ Claim(s)
    \/ Extract(s)
    \/ s = "validation" /\ Validate
    \/ s = "generation" /\ Generate
    \/ Publish(s) \/ Rollback(s)
    \/ Finish(s)
    \/ Throw(s) \/ \E k \in Keys : TakeThrows(s, k)

ListenerStep ==
    \/ \E s \in Stages, k \in Keys : FinalizeFail(s, k) \/ FinalizePark(s, k)
    \/ \E k \in Keys : CheckRegeneration(k) \/ Republish(k)

BootStep ==
    \/ Restart
    \/ BootFailedJobs
    \/ \E k \in Keys : BootFail(k)
    \/ BootPark \/ BootScan \/ BootPublish

FaultStep ==
    \/ \E s \in Stages : PublishFails(s)
    \/ \E s \in Stages, k \in Keys : FinalizeFails(s, k)
    \/ \E k \in Keys : RepublishFails(k)

(* Everything the API does between two deaths.                             *)
ProcessStep ==
    \/ \E s \in Stages : WorkerStep(s)
    \/ \E s \in Stages, k \in Keys : RecoverStalled(s, k)
    \/ ListenerStep
    \/ BootStep
    \/ FaultStep

UploadStep ==
    \/ Renew \/ RepeatUpload
    \/ \E k \in Keys : SaveFile(k) \/ EnqueueUpload(k) \/ EnqueueUploadFails(k)

Next == ProcessStep \/ Crash \/ Expire \/ UploadStep

Spec == Init /\ [][Next]_vars

(* BullMQ keeps serving jobs, the listeners, reconcilers and requests that *)
(* were started run on, and a dead API container is restarted              *)
(* ("unless-stopped").                                                     *)
Fairness ==
    /\ \A s \in Stages : WF_vars(WorkerStep(s))
    /\ \A s \in Stages, k \in Keys :
           WF_vars(RecoverStalled(s, k)) /\ WF_vars(FinalizeFail(s, k) \/ FinalizePark(s, k))
    /\ \A k \in Keys : /\ WF_vars(CheckRegeneration(k) \/ Republish(k))
                       /\ WF_vars(SaveFile(k) \/ EnqueueUpload(k))
    /\ WF_vars(BootStep)

FairSpec == Spec /\ Fairness

-------------------------------------------------------------------------------
(* What has to be true.                                                    *)

(* The stages, retries, crashes and rollbacks amount to the lifecycle the  *)
(* API promises.                                                           *)
Promise == INSTANCE LifecyclePromise
    WITH key <- row.key, live <- row.live, status <- row.status,
         version <- row.version,
         document <- IF row.documents = <<>> THEN "none"
                     ELSE IF row.documents[Len(row.documents)].valid THEN "valid"
                     ELSE "rejected"

ImplementsPromise == Promise!Spec

(* At most one document exists, it is valid exactly when the invoice is    *)
(* READY, and no blocking finding is left once processing passed the       *)
(* validation: what completeGeneration, reviewCorrection and the rollbacks *)
(* leave behind fits together.                                             *)
DocumentsMatchStatus ==
    /\ Len(row.documents) <= 1
    /\ row.status = "READY" <=> \E i \in DOMAIN row.documents : row.documents[i].valid
    /\ row.documents # <<>> => row.status \in {"READY", "NEEDS_REVIEW"}
    /\ row.status \in {"GENERATING", "GENERATING_DOCUMENT", "READY"} => row.findings = {}

(* What the queues and those who work with them agree on: a worker's job   *)
(* is active and has an attempt left, and a job that a listener or the     *)
(* startup finalizes has failed and stays so.                              *)
QueuesAgree ==
    /\ \A s \in Stages : worker[s].pc # "idle" => job[s][worker[s].key].state = "active"
    /\ \A s \in Stages, k \in Keys :
           /\ job[s][k].state \in {"waiting", "active"} => job[s][k].made < Attempts
           /\ failing[s][k] # "none" => job[s][k].state = "failed"
    /\ \A k \in boot.todo : job[Booting][k].state = "failed"
    /\ boot.pc = "park" => job[Booting][boot.key].state = "failed"

(* An invoice that failed because a stage gave up can be retried: its dead *)
(* letter exists, or the failed job from which a startup restores it.      *)
ExhaustedIsRecoverable ==
    \A s \in Stages : AlreadyExhausted(s, row.key) =>
        HasDeadLetter(s, row.key) \/ job[s][row.key].state = "failed"

(* Something in the running process will still move an invoice that is in  *)
(* processing: a job of its stage, the producer of that job, a listener,   *)
(* or a reconciler that has not come to the stage yet.  Only an invoice    *)
(* whose file was never stored waits for its user.                         *)
WillRun(s, k) == job[s][k].state \in {"waiting", "active"}

Driven(s, k) ==
    \/ WillRun(s, k)
    \/ failing[s][k] = "fail"
    \/ \E p \in Publishers : /\ NextStage[p] = s
                             /\ worker[p].key = k
                             /\ worker[p].pc \in {"publish", "rollback"}
    \/ s = "generation" /\ completing[k] # "none"
    \/ s = "text-extraction" /\ upload[k].pc = "enqueue"
    \/ ~Serving

NoStrandedInvoice ==
    \A s \in Stages :
        row.live /\ row.status \in InFlight(s) /\ ~AwaitsUpload => Driven(s, row.key)

(* Where enqueues and listeners may fail: before the first such failure    *)
(* nothing strands an invoice, whatever upload, stage or reconciliation    *)
(* the process died in.                                                    *)
OnlyFaultsStrand == budget.faults = 0 => NoStrandedInvoice

(* Work done for an earlier lifecycle, by a worker, a listener or a        *)
(* reconciler, leaves the reused row alone.                                *)
LeavesOthersAlone ==
    /\ \A s \in Stages : worker[s].pc # "idle" /\ worker[s].key # row.key
                            /\ worker'[s] # worker[s] => row' = row
    /\ \A s \in Stages, k \in Keys :
           k # row.key /\ failing'[s][k] # failing[s][k] => row' = row
    /\ \A k \in Keys : k # row.key /\ k \in boot.todo \ boot'.todo => row' = row

StaleWorkIsHarmless == [][LeavesOthersAlone]_vars

(* A live invoice that has its file does not stay in processing for ever.  *)
Settled == ~row.live \/ row.status \in Resting \/ AwaitsUpload

EventuallySettles == ~Settled ~> Settled

(* Whatever call failed before, the next startup gets the invoice going.   *)
RestartRecovers ==
    boot.pc = "down" /\ budget.faults = MaxFaults ~> Settled

==============================================================================
