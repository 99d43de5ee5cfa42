-------------------------- MODULE StagePipelineProofs --------------------------
(***************************************************************************)
(* What StagePipeline satisfies for every number of storage keys, attempts, *)
(* stalls, crashes and faults, whichever stage the invoice starts in and   *)
(* in whichever order the startup reconciles the stages.                   *)
(***************************************************************************)
EXTENDS StagePipeline, TLAPS

(* Types need the queues' bookkeeping: only a job with an attempt left is  *)
(* given to a worker, so counting the attempt stays within the bound.      *)
IInv == TypeOK /\ QueuesAgree

(* The part of this that also holds while people retry: QueuesAgree        *)
(* without those who finalize failed jobs, since a retry cleans the failed *)
(* job that a listener is finalizing.                                      *)
WorkersAgree ==
    /\ \A s \in Stages : worker[s].pc # "idle" => job[s][worker[s].key].state = "active"
    /\ \A s \in Stages, k \in Keys :
           job[s][k].state \in {"waiting", "active"} => job[s][k].made < Attempts

FinalizersAgree ==
    /\ \A s \in Stages, k \in Keys : failing[s][k] # "none" => job[s][k].state = "failed"
    /\ \A k \in boot.todo : job[Booting][k].state = "failed"
    /\ boot.pc = "park" => job[Booting][boot.key].state = "failed"

CInv == TypeOK /\ WorkersAgree

Keeps == CInv' /\ (FinalizersAgree => FinalizersAgree')

JobTable == [Stages -> [Keys -> Job]]

(* Together they are IInv.                                                 *)
LEMMA IInvParts ==
    /\ IInv <=> CInv /\ FinalizersAgree
    /\ IInv' <=> CInv' /\ FinalizersAgree'
BY DEF IInv, CInv, QueuesAgree, WorkersAgree, FinalizersAgree

-------------------------------------------------------------------------------
(* The operators of InvoiceStore keep the store well-typed.                *)

(* The stage tables stay within the stages and the statuses.               *)
LEMMA StageFacts ==
    /\ ClaimFrom \in [Stages -> Status]
    /\ ClaimTo \in [Stages -> Status]
    /\ NextStage \in [Publishers -> Stages]
    /\ Publishers \subseteq Stages
    /\ Stages # {}
    /\ {"FAILED", "GENERATING", "GENERATING_DOCUMENT", "NEEDS_REVIEW"} \subseteq Status
    /\ "generation" \in Stages /\ "text-extraction" \in Stages /\ "validation" \in Stages
BY DEF Stages, Status, ClaimFrom, ClaimTo, NextStage, Publishers

(* The reset row of an upload is a row.                                    *)
LEMMA NewRowType ==
    ASSUME NEW k \in Keys PROVE NewRow(k) \in Row
BY DEF NewRow, Row, Status, Document

(* Failing an invoice for good leaves a row.                               *)
LEMMA FailType ==
    ASSUME row \in Row, NEW s \in Stages, NEW k,
           FailIrrecoverably(s, k) \/ FailIrrecoverablyLost(s, k)
    PROVE  row' \in Row
BY DEF FailIrrecoverably, FailIrrecoverablyLost, Row, Status

(* A conditional transition leaves a row.                                  *)
LEMMA TransitionType ==
    ASSUME row \in Row, NEW k, NEW from, NEW to \in Status, Transition(k, from, to)
    PROVE  row' \in Row
BY DEF Transition, Row

(* So does the verdict of the validation,                                  *)
LEMMA ValidationType ==
    ASSUME row \in Row, NEW k, NEW to \in Status,
           NEW findings \in SUBSET {"rule", "mapping", "kosit"},
           CompleteValidation(k, to, findings)
    PROVE  row' \in Row
BY DEF CompleteValidation, Row

(* a rejected mapping,                                                     *)
LEMMA RejectionType ==
    ASSUME row \in Row, NEW k, RejectGeneration(k)
    PROVE  row' \in Row
<1>1. row.findings \cup {"mapping"} \in SUBSET {"rule", "mapping", "kosit"}
  BY DEF Row
<1> QED
  BY <1>1 DEF RejectGeneration, Row, Status

(* and a generated document with its verdict.                              *)
LEMMA DocumentType ==
    ASSUME row \in Row, NEW k, NEW version \in Nat, NEW valid \in BOOLEAN,
           CompleteGeneration(k, version, valid)
    PROVE  row' \in Row
<1>1. [version |-> version, valid |-> valid] \in Document
  BY DEF Document
<1>2. Append(row.documents, [version |-> version, valid |-> valid]) \in Seq(Document)
  BY <1>1 DEF Row
<1>3. (row.findings \ {"kosit"}) \cup (IF valid THEN {} ELSE {"kosit"})
          \in SUBSET {"rule", "mapping", "kosit"}
  BY DEF Row
<1> QED
  BY <1>2, <1>3 DEF CompleteGeneration, Row, Status

(* Adding a job changes nothing but a free id, and makes it fresh.         *)
LEMMA EnqueuedFacts ==
    ASSUME NEW jobs \in JobTable, NEW s \in Stages, NEW k \in Keys
    PROVE  /\ Enqueued(jobs, s, k) \in JobTable
           /\ \A r \in Stages, l \in Keys :
                  \/ Enqueued(jobs, s, k)[r][l] = jobs[r][l]
                  \/ jobs[r][l].state = "none" /\ Enqueued(jobs, s, k)[r][l] = FreshJob
<1>1. FreshJob \in Job
  BY StoreAssumption DEF FreshJob, Job
<1> QED
  BY <1>1 DEF Enqueued, JobTable

(* Parking a job leaves a sequence of stages as dead letters.              *)
LEMMA MoveToDlqType ==
    ASSUME deadLetters \in [Keys -> Seq(Stages)], NEW s \in Stages, NEW k \in Keys,
           MoveToDlq(s, k)
    PROVE  deadLetters' \in [Keys -> Seq(Stages)]
<1>1. Append(deadLetters[k], s) \in Seq(Stages)
  OBVIOUS
<1> QED
  BY <1>1 DEF MoveToDlq

-------------------------------------------------------------------------------
(* Every step keeps CInv: one lemma for each kind of step.                 *)

(* Rewriting one job leaves the others as they were.                       *)
LEMMA JobUpdate ==
    ASSUME job \in JobTable, NEW s \in Stages, NEW k \in Keys, NEW j \in Job,
           job' = [job EXCEPT ![s][k] = j]
    PROVE  /\ job' \in JobTable
           /\ job'[s][k] = j
           /\ \A r \in Stages, l \in Keys : r # s \/ l # k => job'[r][l] = job[r][l]
BY DEF JobTable

(* So does moving one worker.                                              *)
LEMMA WorkerUpdate ==
    ASSUME worker \in [Stages -> Worker], NEW s \in Stages, NEW w \in Worker,
           worker' = [worker EXCEPT ![s] = w]
    PROVE  /\ worker' \in [Stages -> Worker]
           /\ worker'[s] = w
           /\ \A r \in Stages : r # s => worker'[r] = worker[r]
OBVIOUS

(* A step that adds jobs at most, takes no new one up, and finalizes no    *)
(* other one keeps the bookkeeping.                                        *)
LEMMA QuietStep ==
    ASSUME CInv, TypeOK',
           \A r \in Stages, l \in Keys :
               \/ job'[r][l] = job[r][l]
               \/ job[r][l].state = "none" /\ job'[r][l] = FreshJob,
           \A r \in Stages : worker'[r].pc # "idle" =>
               worker[r].pc # "idle" /\ worker'[r].key = worker[r].key,
           \A r \in Stages, l \in Keys : failing'[r][l] # "none" => failing[r][l] # "none",
           \A l \in Keys : l \in boot'.todo => boot'.at = boot.at /\ l \in boot.todo,
           boot'.pc = "park" => /\ boot'.at = boot.at
                                /\ \/ boot'.key \in boot.todo
                                   \/ boot.pc = "park" /\ boot'.key = boot.key
    PROVE  Keeps
<1>1. /\ boot \in Boot /\ boot' \in Boot
      /\ worker \in [Stages -> Worker] /\ worker' \in [Stages -> Worker]
  BY DEF CInv, TypeOK
<1>2. boot.at \in 1 .. 4 /\ boot.key \in Keys /\ boot.todo \subseteq Keys
      /\ boot'.at \in 1 .. 4 /\ boot'.key \in Keys /\ boot'.todo \subseteq Keys
  BY <1>1 DEF Boot
<1>3. BootOrder[boot.at] \in Stages
  BY <1>2, PipelineAssumption
<1>4. \A r \in Stages : worker[r].key \in Keys /\ worker'[r].key \in Keys
  BY <1>1 DEF Worker
<1>5. FreshJob.state = "waiting" /\ FreshJob.made = 0 /\ 0 < Attempts
  BY StoreAssumption DEF FreshJob
<1>6. \A r \in Stages : worker'[r].pc # "idle" => job'[r][worker'[r].key].state = "active"
  BY <1>4 DEF CInv, WorkersAgree
<1>7. \A r \in Stages, l \in Keys :
          job'[r][l].state \in {"waiting", "active"} => job'[r][l].made < Attempts
  BY <1>5 DEF CInv, WorkersAgree
<1>8. ASSUME FinalizersAgree PROVE FinalizersAgree'
  <2>1. \A r \in Stages, l \in Keys : failing'[r][l] # "none" => job'[r][l].state = "failed"
    BY <1>5, <1>8 DEF FinalizersAgree
  <2>2. \A l \in boot'.todo : job'[Booting'][l].state = "failed"
    BY <1>2, <1>3, <1>8 DEF FinalizersAgree, Booting
  <2>3. boot'.pc = "park" => job'[Booting'][boot'.key].state = "failed"
    BY <1>2, <1>3, <1>8 DEF FinalizersAgree, Booting
  <2> QED
    BY <2>1, <2>2, <2>3 DEF FinalizersAgree
<1> QED
  BY <1>6, <1>7, <1>8 DEF CInv, WorkersAgree, Keeps

(* A worker that goes on with its job.                                     *)
LEMMA GotoFacts ==
    ASSUME worker \in [Stages -> Worker], NEW s \in Stages, NEW pc, Goto(s, pc),
           pc \in {"idle", "park", "claim", "work", "publish", "rollback", "throw", "finish"}
    PROVE  /\ worker' \in [Stages -> Worker]
           /\ worker'[s].pc = pc /\ worker'[s].key = worker[s].key
           /\ \A r \in Stages : r # s => worker'[r] = worker[r]
<1> DEFINE w == [worker[s] EXCEPT !.pc = pc]
<1>1. worker[s] \in Worker
  OBVIOUS
<1>2. w \in Worker /\ w.pc = pc /\ w.key = worker[s].key
  BY <1>1 DEF Worker
<1>3. worker' = [worker EXCEPT ![s] = w]
  BY DEF Goto
<1> HIDE DEF w
<1> QED
  BY <1>2, <1>3, WorkerUpdate

(* Where no failed job is touched, those who finalize one agree with it.   *)
LEMMA FailedStay ==
    ASSUME TypeOK, UNCHANGED <<failing, boot>>,
           \A r \in Stages, l \in Keys :
               job[r][l].state = "failed" => job'[r][l].state = "failed"
    PROVE  FinalizersAgree => FinalizersAgree'
<1>1. Booting \in Stages /\ boot.key \in Keys /\ boot.todo \subseteq Keys /\ Booting' = Booting
  BY PipelineAssumption DEF TypeOK, Boot, Booting
<1> QED
  BY <1>1 DEF FinalizersAgree

(* Taking a job makes it active and its worker busy with it.               *)
LEMMA TakeKeeps ==
    ASSUME CInv, NEW s \in Stages, NEW k \in Keys, Take(s, k)
    PROVE  Keeps
<1> DEFINE j == [job[s][k] EXCEPT !.state = "active"]
           w == [pc |-> Accept(s, k), key |-> k,
                 version |-> IF s = "generation" THEN row.version ELSE 0]
<1>0. job[s][k] \in Job
  BY DEF CInv, TypeOK, StoreTypeOK
<1>1. j \in Job /\ j.state = "active" /\ j.made = job[s][k].made
  BY <1>0 DEF Job
<1>2. job' = [job EXCEPT ![s][k] = j]
  BY DEF Take
<1>3. w \in Worker /\ w.key = k
  BY DEF CInv, TypeOK, StoreTypeOK, Worker, Row, Accept
<1>4. worker' = [worker EXCEPT ![s] = w]
  BY DEF Take
<1> HIDE DEF j, w
<1>5. /\ job' \in JobTable
      /\ job'[s][k] = j
      /\ \A r \in Stages, l \in Keys : r # s \/ l # k => job'[r][l] = job[r][l]
  BY <1>1, <1>2, JobUpdate DEF CInv, TypeOK, StoreTypeOK, JobTable
<1>6. /\ worker' \in [Stages -> Worker]
      /\ worker'[s] = w
      /\ \A r \in Stages : r # s => worker'[r] = worker[r]
  BY <1>3, <1>4, WorkerUpdate DEF CInv, TypeOK
<1>7. TypeOK'
  BY <1>5, <1>6 DEF Take, CInv, TypeOK, StoreTypeOK, JobTable
<1>8. WorkersAgree'
  BY <1>1, <1>3, <1>5, <1>6
     DEF Take, CInv, TypeOK, StoreTypeOK, WorkersAgree
<1>9. \A r \in Stages, l \in Keys :
          job[r][l].state = "failed" => job'[r][l].state = "failed"
  BY <1>5 DEF Take
<1> QED
  BY <1>7, <1>8, <1>9, FailedStay DEF Take, CInv, Keeps

(* The steps of a worker that write the row and go on.                     *)
LEMMA WorkKeeps ==
    ASSUME CInv, NEW s \in Stages, NEW pc, Goto(s, pc), worker[s].pc # "idle",
           pc \in {"park", "claim", "work", "publish", "rollback", "throw", "finish"},
           row' \in Row, deadLetters' \in [Keys -> Seq(Stages)],
           job' \in JobTable,
           \A r \in Stages, l \in Keys :
               \/ job'[r][l] = job[r][l]
               \/ job[r][l].state = "none" /\ job'[r][l] = FreshJob,
           budget' \in [crashes : Nat, faults : Nat],
           UNCHANGED <<failing, completing, boot, upload>>
    PROVE  Keeps
<1>1. /\ worker' \in [Stages -> Worker]
      /\ worker'[s].pc = pc /\ worker'[s].key = worker[s].key
      /\ \A r \in Stages : r # s => worker'[r] = worker[r]
  BY GotoFacts DEF CInv, TypeOK
<1>2. TypeOK'
  BY <1>1 DEF CInv, TypeOK, StoreTypeOK, JobTable
<1> QED
  BY <1>1, <1>2, QuietStep

(* Parking an exhausted job, which takes a retry, writes no job.           *)
LEMMA ParkKeeps ==
    ASSUME CInv, NEW s \in Stages, Park(s) PROVE Keeps
<1>1. worker[s].key \in Keys
  BY DEF CInv, TypeOK, Worker
<1>2. deadLetters' \in [Keys -> Seq(Stages)]
  BY <1>1, MoveToDlqType DEF Park, CInv, TypeOK, StoreTypeOK
<1> QED
  BY <1>2, WorkKeeps DEF Park, At, CInv, TypeOK, StoreTypeOK, JobTable

(* The claim, won or lost.                                                 *)
LEMMA ClaimKeeps ==
    ASSUME CInv, NEW s \in Stages, Claim(s) PROVE Keeps
<1>1. row' \in Row
  BY StageFacts, TransitionType DEF Claim, CInv, TypeOK, StoreTypeOK
<1>2. \E pc \in {"work", "finish"} : Goto(s, pc)
  BY DEF Claim
<1> QED
  BY <1>1, <1>2, WorkKeeps DEF Claim, At, CInv, TypeOK, StoreTypeOK, JobTable

(* The two extraction stages.                                              *)
LEMMA ExtractKeeps ==
    ASSUME CInv, NEW s \in Stages, Extract(s) PROVE Keeps
<1>1. ClaimFrom[NextStage[s]] \in Status
  BY StageFacts DEF Extract, Publishers
<1>2. TransitionToFailed(worker[s].key, ClaimTo[s]) => row' \in Row
  BY DEF TransitionToFailed, CInv, TypeOK, StoreTypeOK, Row, Status
<1>3. row' \in Row
  BY <1>1, <1>2, TransitionType DEF Extract, CInv, TypeOK, StoreTypeOK
<1>4. \E pc \in {"publish", "finish"} : Goto(s, pc)
  BY DEF Extract
<1> QED
  BY <1>3, <1>4, WorkKeeps DEF Extract, At, CInv, TypeOK, StoreTypeOK, JobTable

(* The validation stage.                                                   *)
LEMMA ValidateKeeps ==
    ASSUME CInv, Validate PROVE Keeps
<1>1. row' \in Row
  BY ValidationType, StageFacts DEF Validate, CInv, TypeOK, StoreTypeOK
<1>2. \E pc \in {"publish", "finish"} : Goto("validation", pc)
  BY DEF Validate
<1> QED
  BY <1>1, <1>2, StageFacts, WorkKeeps
     DEF Validate, At, CInv, TypeOK, StoreTypeOK, JobTable

(* The generation stage.                                                   *)
LEMMA GenerateKeeps ==
    ASSUME CInv, Generate PROVE Keeps
<1>1. worker["generation"].version \in Nat
  BY StageFacts DEF CInv, TypeOK, Worker
<1>2. RejectGeneration(worker["generation"].key) => row' \in Row
  BY RejectionType DEF CInv, TypeOK, StoreTypeOK
<1>3. row' \in Row
  BY <1>1, <1>2, DocumentType DEF Generate, CInv, TypeOK, StoreTypeOK
<1> QED
  BY <1>3, StageFacts, WorkKeeps DEF Generate, At, CInv, TypeOK, StoreTypeOK, JobTable

(* The handoff, which adds a job of the next stage, whether or not the     *)
(* call fails.                                                             *)
LEMMA PublishKeeps ==
    ASSUME CInv, NEW s \in Stages, Publish(s) \/ PublishFails(s) PROVE Keeps
<1>1. s \in Publishers /\ NextStage[s] \in Stages
  BY StageFacts DEF Publish, PublishFails
<1>2. job \in JobTable /\ worker[s].key \in Keys
  BY DEF CInv, TypeOK, StoreTypeOK, JobTable, Worker
<1>3. job' = job \/ job' = Enqueued(job, NextStage[s], worker[s].key)
  BY DEF Publish, PublishFails, Enqueue
<1>4. /\ job' \in JobTable
      /\ \A r \in Stages, l \in Keys :
             \/ job'[r][l] = job[r][l]
             \/ job[r][l].state = "none" /\ job'[r][l] = FreshJob
  BY <1>1, <1>2, <1>3, EnqueuedFacts
<1>5. budget' \in [crashes : Nat, faults : Nat]
  BY DEF Publish, PublishFails, Fault, CInv, TypeOK
<1>6. \E pc \in {"rollback", "finish"} : Goto(s, pc)
  BY DEF Publish, PublishFails
<1> QED
  BY <1>4, <1>5, <1>6, WorkKeeps DEF Publish, PublishFails, At, CInv, TypeOK, StoreTypeOK

(* The rollback of a failed handoff.                                       *)
LEMMA RollbackKeeps ==
    ASSUME CInv, NEW s \in Stages, Rollback(s) PROVE Keeps
<1>1. row' \in Row
  BY StageFacts, TransitionType DEF Rollback, CInv, TypeOK, StoreTypeOK
<1>2. \E pc \in {"throw", "finish"} : Goto(s, pc)
  BY DEF Rollback
<1> QED
  BY <1>1, <1>2, WorkKeeps DEF Rollback, At, CInv, TypeOK, StoreTypeOK, JobTable

(* An attempt that failed: the job had one left, so counting it stays in   *)
(* bounds, and the listener is told exactly of a failed job.               *)
LEMMA TryAgainFacts ==
    ASSUME CInv, NEW s \in Stages, NEW k \in Keys, TryAgain(s, k),
           job[s][k].state \in {"waiting", "active"}
    PROVE  /\ job' \in JobTable
           /\ failing' \in [Stages -> [Keys -> {"none", "fail", "park"}]]
           /\ \A r \in Stages, l \in Keys : r # s \/ l # k =>
                  job'[r][l] = job[r][l] /\ failing'[r][l] = failing[r][l]
           /\ job'[s][k].state \in {"waiting", "failed"}
           /\ job'[s][k].state = "waiting" => job'[s][k].made < Attempts
           /\ FinalizersAgree => (failing'[s][k] # "none" => job'[s][k].state = "failed")
<1> DEFINE made == job[s][k].made + 1
           state == IF made < Attempts THEN "waiting" ELSE "failed"
           j == [job[s][k] EXCEPT !.made = made, !.state = state]
<1>1. job[s][k] \in Job /\ job[s][k].made < Attempts /\ job[s][k].state # "failed"
  BY DEF CInv, TypeOK, StoreTypeOK, WorkersAgree
<1>2. made \in 0 .. Attempts
  BY <1>1, StoreAssumption DEF Job
<1>3. j \in Job /\ j.made = made /\ j.state = state
  BY <1>1, <1>2 DEF Job
<1>4. job' = [job EXCEPT ![s][k] = j]
  BY DEF TryAgain
<1>5. failing' = IF state = "failed" THEN [failing EXCEPT ![s][k] = "fail"] ELSE failing
  BY DEF TryAgain
<1>6. FinalizersAgree => failing[s][k] = "none"
  BY <1>1 DEF FinalizersAgree
<1> HIDE DEF j
<1>7. /\ job' \in JobTable
      /\ job'[s][k] = j
      /\ \A r \in Stages, l \in Keys : r # s \/ l # k => job'[r][l] = job[r][l]
  BY <1>3, <1>4, JobUpdate DEF CInv, TypeOK, StoreTypeOK, JobTable
<1>8. /\ failing' \in [Stages -> [Keys -> {"none", "fail", "park"}]]
      /\ \A r \in Stages, l \in Keys : r # s \/ l # k => failing'[r][l] = failing[r][l]
      /\ FinalizersAgree => (failing'[s][k] # "none" => state = "failed")
  BY <1>5, <1>6 DEF CInv, TypeOK
<1> QED
  BY <1>3, <1>7, <1>8

(* A step that ends the work on a job, if any, and leaves the startup      *)
(* alone: the job of a worker that goes on and every failed job stay.      *)
LEMMA EndStep ==
    ASSUME CInv, TypeOK', NEW s \in Stages, NEW k \in Keys, UNCHANGED boot,
           job[s][k].state \in {"waiting", "active"},
           \A r \in Stages, l \in Keys : r # s \/ l # k =>
               job'[r][l] = job[r][l] /\ failing'[r][l] = failing[r][l],
           job'[s][k].state \in {"waiting", "active"} => job'[s][k].made < Attempts,
           FinalizersAgree => (failing'[s][k] # "none" => job'[s][k].state = "failed"),
           \A r \in Stages : worker'[r].pc # "idle" =>
               worker' [r] = worker[r] /\ (r # s \/ worker[r].key # k)
    PROVE  Keeps
<1>1. \A r \in Stages : worker[r].key \in Keys
  BY DEF CInv, TypeOK, Worker
<1>2. Booting \in Stages /\ boot.key \in Keys /\ boot.todo \subseteq Keys
  BY PipelineAssumption DEF CInv, TypeOK, Boot, Booting
<1>3. Booting' = Booting
  BY DEF Booting
<1>4. \A r \in Stages : worker'[r].pc # "idle" => job'[r][worker'[r].key].state = "active"
  BY <1>1 DEF CInv, WorkersAgree
<1>5. \A r \in Stages, l \in Keys :
          job'[r][l].state \in {"waiting", "active"} => job'[r][l].made < Attempts
  BY DEF CInv, WorkersAgree
<1>6. \A r \in Stages, l \in Keys : job[r][l].state = "failed" => job'[r][l].state = "failed"
  OBVIOUS
<1>7. ASSUME FinalizersAgree PROVE FinalizersAgree'
  <2>1. \A r \in Stages, l \in Keys : failing'[r][l] # "none" => job'[r][l].state = "failed"
    BY <1>7 DEF FinalizersAgree
  <2>2. \A l \in boot'.todo : job'[Booting'][l].state = "failed"
    BY <1>2, <1>3, <1>6, <1>7 DEF FinalizersAgree
  <2>3. boot'.pc = "park" => job'[Booting'][boot'.key].state = "failed"
    BY <1>2, <1>3, <1>6, <1>7 DEF FinalizersAgree
  <2> QED
    BY <2>1, <2>2, <2>3 DEF FinalizersAgree
<1> QED
  BY <1>4, <1>5, <1>7 DEF CInv, WorkersAgree, Keeps

(* A worker that ends its job is idle.                                     *)
LEMMA RestFacts ==
    ASSUME worker \in [Stages -> Worker], NEW s \in Stages, Rest(s)
    PROVE  /\ worker' \in [Stages -> Worker]
           /\ worker'[s].pc = "idle"
           /\ \A r \in Stages : r # s => worker'[r] = worker[r]
<1>1. AtRest \in Worker /\ AtRest.pc = "idle"
  BY StoreAssumption DEF AtRest, Worker, Keys
<1> QED
  BY <1>1, WorkerUpdate DEF Rest

(* A job that throws while its worker has it.                              *)
LEMMA ThrowKeeps ==
    ASSUME CInv, NEW s \in Stages, Throw(s) PROVE Keeps
<1> DEFINE k == worker[s].key
<1>1. k \in Keys /\ worker[s].pc # "idle"
  BY DEF Throw, At, CInv, TypeOK, Worker
<1>2. job[s][k].state = "active"
  BY <1>1 DEF CInv, WorkersAgree
<1>3. TryAgain(s, k) /\ Rest(s)
  BY DEF Throw
<1> HIDE DEF k
<1>4. /\ job' \in JobTable
      /\ failing' \in [Stages -> [Keys -> {"none", "fail", "park"}]]
      /\ \A r \in Stages, l \in Keys : r # s \/ l # k =>
             job'[r][l] = job[r][l] /\ failing'[r][l] = failing[r][l]
      /\ job'[s][k].state \in {"waiting", "failed"}
      /\ job'[s][k].state = "waiting" => job'[s][k].made < Attempts
      /\ FinalizersAgree => (failing'[s][k] # "none" => job'[s][k].state = "failed")
  BY <1>1, <1>2, <1>3, TryAgainFacts
<1>5. /\ worker' \in [Stages -> Worker]
      /\ worker'[s].pc = "idle"
      /\ \A r \in Stages : r # s => worker'[r] = worker[r]
  BY <1>3, RestFacts DEF CInv, TypeOK
<1>6. TypeOK'
  BY <1>4, <1>5 DEF Throw, CInv, TypeOK, StoreTypeOK, JobTable
<1> QED
  BY <1>1, <1>2, <1>4, <1>5, <1>6, EndStep DEF Throw

(* A job that throws before its worker has read the row.                   *)
LEMMA TakeThrowsKeeps ==
    ASSUME CInv, NEW s \in Stages, NEW k \in Keys, TakeThrows(s, k) PROVE Keeps
<1>1. job[s][k].state = "waiting" /\ TryAgain(s, k) /\ worker[s].pc = "idle"
  BY DEF TakeThrows, At
<1>2. /\ job' \in JobTable
      /\ failing' \in [Stages -> [Keys -> {"none", "fail", "park"}]]
      /\ \A r \in Stages, l \in Keys : r # s \/ l # k =>
             job'[r][l] = job[r][l] /\ failing'[r][l] = failing[r][l]
      /\ job'[s][k].state \in {"waiting", "failed"}
      /\ job'[s][k].state = "waiting" => job'[s][k].made < Attempts
      /\ FinalizersAgree => (failing'[s][k] # "none" => job'[s][k].state = "failed")
  BY <1>1, TryAgainFacts
<1>3. TypeOK'
  BY <1>2 DEF TakeThrows, CInv, TypeOK, StoreTypeOK, JobTable
<1> QED
  BY <1>1, <1>2, <1>3, EndStep DEF TakeThrows

(* A job that completes is removed.                                        *)
LEMMA FinishKeeps ==
    ASSUME CInv, NEW s \in Stages, Finish(s) PROVE Keeps
<1> DEFINE k == worker[s].key
<1>1. k \in Keys /\ worker[s].pc # "idle"
  BY DEF Finish, At, CInv, TypeOK, Worker
<1>2. job[s][k].state = "active" /\ (FinalizersAgree => failing[s][k] = "none")
  BY <1>1 DEF CInv, WorkersAgree, FinalizersAgree
<1>3. NoJob \in Job /\ NoJob.state = "none"
  BY StoreAssumption DEF NoJob, Job
<1>4. job' = [job EXCEPT ![s][k] = NoJob]
  BY DEF Finish
<1>5. completing' \in [Keys -> {"none", "check", "publish"}]
  BY <1>1 DEF Finish, CInv, TypeOK
<1> HIDE DEF k
<1>6. /\ job' \in JobTable
      /\ job'[s][k] = NoJob
      /\ \A r \in Stages, l \in Keys : r # s \/ l # k => job'[r][l] = job[r][l]
  BY <1>1, <1>3, <1>4, JobUpdate DEF CInv, TypeOK, StoreTypeOK, JobTable
<1>7. /\ worker' \in [Stages -> Worker]
      /\ worker'[s].pc = "idle"
      /\ \A r \in Stages : r # s => worker'[r] = worker[r]
  BY RestFacts DEF Finish, CInv, TypeOK
<1>8. TypeOK'
  BY <1>5, <1>6, <1>7 DEF Finish, CInv, TypeOK, StoreTypeOK, JobTable
<1> QED
  BY <1>1, <1>2, <1>3, <1>6, <1>7, <1>8, EndStep DEF Finish

(* RecoverStalled requeues a job nobody works on, or gives up on it.       *)
LEMMA RecoverStalledKeeps ==
    ASSUME CInv, NEW s \in Stages, NEW k \in Keys, RecoverStalled(s, k) PROVE Keeps
<1>1. job[s][k] \in Job /\ job[s][k].state = "active" /\ job[s][k].made < Attempts
  BY DEF RecoverStalled, CInv, TypeOK, StoreTypeOK, WorkersAgree
<1>2. FinalizersAgree => failing[s][k] = "none"
  BY <1>1 DEF FinalizersAgree
<1>3. PICK j \in Job : /\ job' = [job EXCEPT ![s][k] = j]
                      /\ j.made = job[s][k].made
                      /\ \/ j.state = "waiting" /\ UNCHANGED failing
                         \/ /\ j.state = "failed"
                            /\ failing' = [failing EXCEPT ![s][k] = "fail"]
  <2>1. CASE job[s][k].stalls < MaxStalls
    <3> DEFINE j == Requeued(job[s][k])
    <3>1. job[s][k].stalls + 1 \in 0 .. MaxStalls
      BY <1>1, <2>1, StoreAssumption DEF Job
    <3>2. j \in Job /\ j.made = job[s][k].made /\ j.state = "waiting"
      BY <1>1, <3>1 DEF Job, Requeued
    <3>3. job' = [job EXCEPT ![s][k] = j] /\ UNCHANGED failing
      BY <2>1 DEF RecoverStalled
    <3> QED
      BY <3>2, <3>3
  <2>2. CASE ~(job[s][k].stalls < MaxStalls)
    <3> DEFINE j == [job[s][k] EXCEPT !.state = "failed"]
    <3>1. j \in Job /\ j.made = job[s][k].made /\ j.state = "failed"
      BY <1>1 DEF Job
    <3>2. /\ job' = [job EXCEPT ![s][k] = j]
          /\ failing' = [failing EXCEPT ![s][k] = "fail"]
      BY <2>2 DEF RecoverStalled
    <3> QED
      BY <3>1, <3>2
  <2> QED
    BY <2>1, <2>2
<1>4. /\ job' \in JobTable
      /\ job'[s][k] = j
      /\ \A r \in Stages, l \in Keys : r # s \/ l # k => job'[r][l] = job[r][l]
  BY <1>3, JobUpdate DEF CInv, TypeOK, StoreTypeOK, JobTable
<1>5. /\ failing' \in [Stages -> [Keys -> {"none", "fail", "park"}]]
      /\ \A r \in Stages, l \in Keys : r # s \/ l # k => failing'[r][l] = failing[r][l]
      /\ FinalizersAgree => (failing'[s][k] # "none" => j.state = "failed")
  BY <1>2, <1>3 DEF CInv, TypeOK
<1>6. TypeOK'
  BY <1>4, <1>5 DEF RecoverStalled, CInv, TypeOK, StoreTypeOK, JobTable
<1> QED
  BY <1>1, <1>3, <1>4, <1>5, <1>6, EndStep DEF RecoverStalled

(* The listeners.                                                          *)
LEMMA ListenerKeeps ==
    ASSUME CInv, NEW s \in Stages, NEW k \in Keys,
           FinalizeFail(s, k) \/ FinalizePark(s, k) \/ FinalizeFails(s, k)
    PROVE  Keeps
<1>1. /\ failing' \in [Stages -> [Keys -> {"none", "fail", "park"}]]
      /\ \A r \in Stages, l \in Keys : failing'[r][l] # "none" => failing[r][l] # "none"
  <2>1. failing \in [Stages -> [Keys -> {"none", "fail", "park"}]] /\ failing[s][k] # "none"
    BY DEF FinalizeFail, FinalizePark, FinalizeFails, CInv, TypeOK
  <2>2. \E to \in {"none", "park"} : failing' = [failing EXCEPT ![s][k] = to]
    BY DEF FinalizeFail, FinalizePark, FinalizeFails
  <2> QED
    BY <2>1, <2>2
<1>2. UNCHANGED <<job, worker, completing, boot, upload>>
  BY DEF FinalizeFail, FinalizePark, FinalizeFails, store
<1>3. row' \in Row
  BY FailType DEF FinalizeFail, FinalizePark, FinalizeFails, store, CInv, TypeOK, StoreTypeOK
<1>4. deadLetters' \in [Keys -> Seq(Stages)]
  BY MoveToDlqType
     DEF FinalizeFail, FinalizePark, FinalizeFails, store, CInv, TypeOK, StoreTypeOK
<1>5. budget' \in [crashes : Nat, faults : Nat]
  BY DEF FinalizeFail, FinalizePark, FinalizeFails, Fault, CInv, TypeOK
<1>6. TypeOK'
  BY <1>1, <1>2, <1>3, <1>4, <1>5 DEF CInv, TypeOK, StoreTypeOK
<1> QED
  BY <1>1, <1>2, <1>6, QuietStep

(* The listener that publishes a regeneration again.                       *)
LEMMA CompletedKeeps ==
    ASSUME CInv, NEW k \in Keys,
           CheckRegeneration(k) \/ Republish(k) \/ RepublishFails(k)
    PROVE  Keeps
<1>1. completing' \in [Keys -> {"none", "check", "publish"}]
  BY DEF CheckRegeneration, Republish, RepublishFails, CInv, TypeOK
<1>2. UNCHANGED <<row, deadLetters, worker, failing, boot, upload>>
  BY DEF CheckRegeneration, Republish, RepublishFails, store
<1>3. job' = job \/ job' = Enqueued(job, "generation", k)
  BY DEF CheckRegeneration, Republish, RepublishFails, store, Enqueue
<1>4. /\ job' \in JobTable
      /\ \A r \in Stages, l \in Keys :
             \/ job'[r][l] = job[r][l]
             \/ job[r][l].state = "none" /\ job'[r][l] = FreshJob
  <2>1. job \in JobTable
    BY DEF CInv, TypeOK, StoreTypeOK, JobTable
  <2>2. "generation" \in Stages
    BY StageFacts
  <2>3. CASE job' = job
    BY <2>1, <2>3
  <2>4. CASE job' = Enqueued(job, "generation", k)
    BY <2>1, <2>2, <2>4, EnqueuedFacts
  <2> QED
    BY <1>3, <2>3, <2>4
<1>5. budget' \in [crashes : Nat, faults : Nat]
  BY DEF CheckRegeneration, Republish, RepublishFails, Fault, CInv, TypeOK
<1>6. TypeOK'
  BY <1>1, <1>2, <1>4, <1>5 DEF CInv, TypeOK, StoreTypeOK, JobTable
<1> QED
  BY <1>2, <1>4, <1>6, QuietStep

(* Death: everything in memory goes, the bookkeeping loses its subjects.   *)
LEMMA BootedType ==
    ASSUME NEW pc \in {"down", "next", "done"}
    PROVE  Booted(pc) \in Boot /\ Booted(pc).todo = {} /\ Booted(pc).pc = pc
BY StoreAssumption DEF Booted, Boot, Keys

(* Workers and listeners start with nothing to do.                         *)
LEMMA IdleType ==
    /\ Idle \in [Stages -> Worker]
    /\ \A s \in Stages : Idle[s].pc = "idle"
    /\ Silent \in [Stages -> [Keys -> {"none", "fail", "park"}]]
    /\ \A s \in Stages, k \in Keys : Silent[s][k] = "none"
BY StoreAssumption DEF Idle, AtRest, Worker, Keys, Silent

(* A crash of the process loses only what it held in memory.               *)
LEMMA CrashKeeps ==
    ASSUME CInv, Crash \/ Restart PROVE Keeps
<1>1. CASE Crash
  <2>0. upload \in [Keys -> Upload] /\ budget \in [crashes : Nat, faults : Nat]
    BY DEF CInv, TypeOK
  <2>1. /\ upload' \in [Keys -> Upload]
        /\ budget' \in [crashes : Nat, faults : Nat]
    <3>1. \A k \in Keys : [upload[k] EXCEPT !.pc = "none"] \in Upload
      BY <2>0 DEF Upload
    <3> QED
      BY <1>1, <2>0, <3>1 DEF Crash
  <2>2. /\ UNCHANGED <<row, job, deadLetters>>
        /\ worker' = Idle /\ failing' = Silent /\ boot' = Booted("down")
        /\ completing' \in [Keys -> {"none", "check", "publish"}]
    BY <1>1 DEF Crash, store
  <2>3. TypeOK'
    BY <2>1, <2>2, IdleType, BootedType DEF CInv, TypeOK, StoreTypeOK
  <2> QED
    BY <2>2, <2>3, IdleType, BootedType, QuietStep
<1>2. CASE Restart
  <2>1. TypeOK'
    BY <1>2, BootedType DEF Restart, store, CInv, TypeOK, StoreTypeOK
  <2> QED
    BY <1>2, <2>1, BootedType, QuietStep DEF Restart, store
<1> QED
  BY <1>1, <1>2

(* The startup.                                                            *)
LEMMA BootFailedJobsKeeps ==
    ASSUME CInv, BootFailedJobs PROVE Keeps
<1>1. boot \in Boot
  BY DEF CInv, TypeOK
<1>2. boot' \in Boot /\ boot'.at = boot.at /\ boot'.pc = "failed"
      /\ \A k \in boot'.todo : job[Booting][k].state = "failed"
  BY <1>1 DEF BootFailedJobs, Boot
<1>3. TypeOK'
  BY <1>2 DEF BootFailedJobs, store, CInv, TypeOK, StoreTypeOK
<1>4. Booting' = Booting
  BY <1>2 DEF Booting
<1> QED
  BY <1>2, <1>3, <1>4 DEF BootFailedJobs, store, CInv, WorkersAgree, FinalizersAgree, Keeps

(* The startup fails the invoice of a failed job.                          *)
LEMMA BootFailKeeps ==
    ASSUME CInv, NEW k \in Keys, BootFail(k) PROVE Keeps
<1>1. boot \in Boot
  BY DEF CInv, TypeOK
<1>2. /\ boot' \in Boot /\ boot'.at = boot.at /\ boot'.todo \subseteq boot.todo
      /\ boot'.pc = "park" => boot'.key \in boot.todo
  BY <1>1 DEF BootFail, Boot
<1>3. Booting \in Stages
  BY <1>1, PipelineAssumption DEF Booting, Boot
<1>4. row' \in Row
  BY <1>3, FailType DEF BootFail, CInv, TypeOK, StoreTypeOK
<1>5. TypeOK'
  BY <1>2, <1>4 DEF BootFail, CInv, TypeOK, StoreTypeOK
<1>6. UNCHANGED <<job, worker, failing>> /\ Booting' = Booting
  BY <1>2 DEF BootFail, Booting
<1>7. WorkersAgree'
  BY <1>6 DEF CInv, WorkersAgree
<1>8. FinalizersAgree => FinalizersAgree'
  BY <1>2, <1>6 DEF FinalizersAgree
<1> QED
  BY <1>5, <1>7, <1>8 DEF CInv, Keeps

(* The startup parks that job.                                             *)
LEMMA BootParkKeeps ==
    ASSUME CInv, BootPark PROVE Keeps
<1>1. boot \in Boot /\ 1 \in Keys
  BY StoreAssumption DEF CInv, TypeOK, Keys
<1>2. boot' \in Boot /\ boot'.at = boot.at /\ boot'.todo = boot.todo /\ boot'.pc = "failed"
  BY <1>1 DEF BootPark, Boot
<1>3. Booting \in Stages /\ boot.key \in Keys
  BY <1>1, PipelineAssumption DEF Booting, Boot
<1>4. TypeOK'
  BY <1>2, <1>3, MoveToDlqType DEF BootPark, CInv, TypeOK, StoreTypeOK
<1> QED
  BY <1>2, <1>4, QuietStep DEF BootPark

(* Going on to the next stage, or to serving.                              *)
LEMMA ReconciledType ==
    ASSUME boot \in Boot
    PROVE  Reconciled \in Boot /\ Reconciled.todo = {} /\ Reconciled.pc # "park"
BY StoreAssumption DEF Reconciled, Booted, Boot, Keys

(* The startup looks for a row of the stage.                               *)
LEMMA BootScanKeeps ==
    ASSUME CInv, BootScan PROVE Keeps
<1>1. boot \in Boot /\ row.key \in Keys
  BY DEF CInv, TypeOK, StoreTypeOK, Row
<1>2. boot' \in Boot /\ boot'.todo = {} /\ boot'.pc # "park"
  BY <1>1, ReconciledType DEF BootScan, Boot
<1>3. TypeOK'
  BY <1>2 DEF BootScan, store, CInv, TypeOK, StoreTypeOK
<1> QED
  BY <1>2, <1>3, QuietStep DEF BootScan, store

(* The startup publishes its job again.                                    *)
LEMMA BootPublishKeeps ==
    ASSUME CInv, BootPublish PROVE Keeps
<1>1. boot \in Boot
  BY DEF CInv, TypeOK
<1>2. boot' \in Boot /\ boot'.todo = {} /\ boot'.pc # "park"
  BY <1>1, ReconciledType DEF BootPublish
<1>3. Booting \in Stages /\ boot.key \in Keys
  BY <1>1, PipelineAssumption DEF Booting, Boot
<1>4. /\ job' \in JobTable
      /\ \A r \in Stages, l \in Keys :
             \/ job'[r][l] = job[r][l]
             \/ job[r][l].state = "none" /\ job'[r][l] = FreshJob
  <2>1. job \in JobTable
    BY DEF CInv, TypeOK, StoreTypeOK, JobTable
  <2>2. job' = Enqueued(job, Booting, boot.key)
    BY DEF BootPublish, Enqueue
  <2> QED
    BY <1>3, <2>1, <2>2, EnqueuedFacts
<1>5. TypeOK'
  BY <1>2, <1>4 DEF BootPublish, CInv, TypeOK, StoreTypeOK, JobTable
<1> QED
  BY <1>2, <1>4, <1>5, QuietStep DEF BootPublish

(* The rest of the world.                                                  *)
LEMMA ExpireKeeps ==
    ASSUME CInv, Expire PROVE Keeps
<1>1. row' \in Row
  BY DEF Expire, CInv, TypeOK, StoreTypeOK, Row
<1>2. TypeOK'
  BY <1>1 DEF Expire, process, CInv, TypeOK, StoreTypeOK
<1> QED
  BY <1>2, QuietStep DEF Expire, process

(* An upload leaves the process to its work, and the row too, unless it    *)
(* gives it a new key.                                                     *)
LEMMA UploadLeaves ==
    ASSUME UploadStep
    PROVE  /\ UNCHANGED <<deadLetters, worker, failing, completing, boot>>
           /\ Renew \/ UNCHANGED row
BY DEF UploadStep, Renew, RepeatUpload, SaveFile, EnqueueUpload, EnqueueUploadFails, store

(* An upload writes the row, its file or a job of its key.                 *)
LEMMA UploadFacts ==
    ASSUME TypeOK, UploadStep
    PROVE  /\ upload' \in [Keys -> Upload]
           /\ row' \in Row
           /\ \/ UNCHANGED job
              \/ \E k \in Keys : /\ upload[k].pc = "enqueue"
                                 /\ job' = Enqueued(job, "text-extraction", k)
           /\ budget' \in [crashes : Nat, faults : Nat]
           /\ UNCHANGED <<deadLetters, worker, failing, completing, boot>>
<1>0. /\ row \in Row /\ row.key \in Keys /\ upload \in [Keys -> Upload]
      /\ budget \in [crashes : Nat, faults : Nat]
  BY DEF TypeOK, StoreTypeOK, Row
<1>1. \A k \in Keys : /\ [upload[k] EXCEPT !.pc = "none"] \in Upload
                      /\ [upload[k] EXCEPT !.pc = "save"] \in Upload
                      /\ [upload[k] EXCEPT !.stored = FALSE] \in Upload
                      /\ [pc |-> "enqueue", stored |-> TRUE] \in Upload
  BY <1>0 DEF Upload
<1>2. CASE Renew
  <2>1. row.key + 1 \in Keys /\ row' \in Row
    BY <1>2, NewRowType DEF Renew
  <2>2. upload' \in [Keys -> Upload]
    BY <1>0, <2>1, <1>2 DEF Renew, Upload
  <2> QED
    BY <1>0, <1>2, <2>1, <2>2 DEF Renew
<1>3. CASE RepeatUpload
  BY <1>0, <1>1, <1>3 DEF RepeatUpload, store
<1>4. ASSUME NEW k \in Keys, SaveFile(k) \/ EnqueueUpload(k) \/ EnqueueUploadFails(k)
      PROVE  upload' \in [Keys -> Upload]
  BY <1>0, <1>1, <1>4 DEF SaveFile, EnqueueUpload, EnqueueUploadFails
<1>5. ASSUME NEW k \in Keys, SaveFile(k) \/ EnqueueUpload(k) \/ EnqueueUploadFails(k)
      PROVE  /\ UNCHANGED <<row, deadLetters, worker, failing, completing, boot>>
             /\ budget' \in [crashes : Nat, faults : Nat]
             /\ \/ UNCHANGED job
                \/ /\ upload[k].pc = "enqueue"
                   /\ job' = Enqueued(job, "text-extraction", k)
  BY <1>0, <1>5 DEF SaveFile, EnqueueUpload, EnqueueUploadFails, Fault, Enqueue, store
<1>6. CASE \E k \in Keys : SaveFile(k) \/ EnqueueUpload(k) \/ EnqueueUploadFails(k)
  BY <1>0, <1>4, <1>5, <1>6
<1> QED
  BY <1>2, <1>3, <1>6 DEF UploadStep

(* So it keeps the bookkeeping.                                            *)
LEMMA UploadKeeps ==
    ASSUME CInv, UploadStep PROVE Keeps
<1>1. TypeOK /\ job \in JobTable /\ "text-extraction" \in Stages
  BY StageFacts DEF CInv, TypeOK, StoreTypeOK, JobTable
<1>2. /\ upload' \in [Keys -> Upload] /\ row' \in Row
      /\ budget' \in [crashes : Nat, faults : Nat]
      /\ UNCHANGED <<deadLetters, worker, failing, completing, boot>>
      /\ UNCHANGED job \/ \E k \in Keys : job' = Enqueued(job, "text-extraction", k)
  BY <1>1, UploadFacts
<1>3. /\ job' \in JobTable
      /\ \A r \in Stages, l \in Keys :
             \/ job'[r][l] = job[r][l]
             \/ job[r][l].state = "none" /\ job'[r][l] = FreshJob
  BY <1>1, <1>2, EnqueuedFacts
<1>4. TypeOK'
  BY <1>1, <1>2, <1>3 DEF TypeOK, StoreTypeOK, JobTable
<1> QED
  BY <1>2, <1>3, <1>4, QuietStep

(* A step that changes nothing.                                            *)
LEMMA StutterKeeps ==
    ASSUME CInv, UNCHANGED vars PROVE Keeps
BY DEF vars, store, process, CInv, TypeOK, StoreTypeOK, WorkersAgree, FinalizersAgree, Booting,
       Keeps

-------------------------------------------------------------------------------
(* The initial states satisfy IInv, and every step keeps it.               *)
LEMMA InitIInv ==
    ASSUME Init PROVE IInv
<1>1. row \in Row
  <2>1. NewRow(1) \in Row /\ ClaimFrom[FirstStage] \in Status
    BY StageFacts, StoreAssumption, PipelineAssumption, NewRowType DEF Keys
  <2> QED
    BY <2>1 DEF Init, Row
<1>2. FreshJob \in Job /\ NoJob \in Job
      /\ FreshJob.state = "waiting" /\ FreshJob.made = 0 /\ NoJob.state = "none"
  BY StoreAssumption DEF FreshJob, NoJob, Job
<1>3. job \in [Stages -> [Keys -> Job]]
      /\ \A s \in Stages, k \in Keys : job[s][k] \in {FreshJob, NoJob}
  BY <1>2 DEF Init
<1>4. upload \in [Keys -> Upload]
  BY DEF Init, Upload
<1>5. TypeOK
  BY <1>1, <1>3, <1>4, IdleType, BootedType DEF Init, TypeOK, StoreTypeOK
<1>6. QueuesAgree
  BY <1>2, <1>3, IdleType, BootedType, StoreAssumption DEF Init, QueuesAgree
<1> QED
  BY <1>5, <1>6 DEF IInv

(* Every step keeps what holds beside retries, and what holds without.     *)
LEMMA NextKeeps ==
    ASSUME CInv, [Next]_vars PROVE Keeps
<1>1. ASSUME NEW s \in Stages, WorkerStep(s) PROVE Keeps
  BY <1>1, TakeKeeps, ClaimKeeps, ExtractKeeps, ValidateKeeps, GenerateKeeps,
     PublishKeeps, RollbackKeeps, FinishKeeps, ThrowKeeps, TakeThrowsKeeps DEF WorkerStep
<1>2. ASSUME NEW s \in Stages, NEW k \in Keys, RecoverStalled(s, k) PROVE Keeps
  BY <1>2, RecoverStalledKeeps
<1>3. ASSUME ListenerStep PROVE Keeps
  BY <1>3, ListenerKeeps, CompletedKeeps DEF ListenerStep
<1>4. ASSUME BootStep PROVE Keeps
  BY <1>4, CrashKeeps, BootFailedJobsKeeps, BootFailKeeps, BootParkKeeps, BootScanKeeps,
     BootPublishKeeps DEF BootStep
<1>5. ASSUME FaultStep PROVE Keeps
  BY <1>5, PublishKeeps, ListenerKeeps, CompletedKeeps DEF FaultStep
<1>6. ASSUME ProcessStep PROVE Keeps
  BY <1>1, <1>2, <1>3, <1>4, <1>5, <1>6 DEF ProcessStep
<1> QED
  BY <1>6, CrashKeeps, ExpireKeeps, UploadKeeps, StutterKeeps DEF Next

(* So every step keeps IInv.                                               *)
LEMMA NextIInv ==
    ASSUME IInv, [Next]_vars PROVE IInv'
BY IInvParts, NextKeeps DEF Keeps

(* Type correctness and the queues' bookkeeping are inductive together:    *)
(* neither is without the other, since a job is only known to have an      *)
(* attempt left (and so to stay within attempts) because its worker took   *)
(* it while it was waiting.                                                *)
THEOREM Bookkeeping == Spec => []IInv
<1>1. Init => IInv
  BY InitIInv
<1>2. IInv /\ [Next]_vars => IInv'
  BY NextIInv
<1> QED
  BY <1>1, <1>2, PTL DEF Spec

(* Rows, jobs, workers and reconcilers keep their types; in particular no  *)
(* job ever makes more attempts than it was given.                         *)
THEOREM TypeCorrect == Spec => []TypeOK
<1>1. IInv => TypeOK
  BY DEF IInv
<1> QED
  BY <1>1, Bookkeeping, PTL

(* A worker works on an active job of its own, and only failed jobs are    *)
(* finalized.                                                              *)
THEOREM QueuesAlwaysAgree == Spec => []QueuesAgree
<1>1. IInv => QueuesAgree
  BY DEF IInv
<1> QED
  BY <1>1, Bookkeeping, PTL
==============================================================================
