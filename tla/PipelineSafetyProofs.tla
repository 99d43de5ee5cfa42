-------------------------- MODULE PipelineSafetyProofs --------------------------
(***************************************************************************)
(* What the pipeline leaves in the invoice's row.  Whichever worker,       *)
(* listener, reconciler or upload takes a step, what it does to the row is *)
(* one of a few guarded writes (RowStep), and the properties of the row    *)
(* follow from those alone.  Then, where no call to Redis fails: that the  *)
(* work only goes forward, so that an invoice in processing always has     *)
(* somebody who moves it on.                                               *)
(***************************************************************************)
EXTENDS StagePipelineProofs

Extractors == {"text-extraction", "data-extraction"}

Fails(s) ==
    /\ FailsIrrecoverably(s, row.key)
    /\ row' = [row EXCEPT !.status = "FAILED", !.failure = s]

(* The writes of a worker that concern the invoice's status.               *)
StatusWrite ==
    \/ \E s \in Stages : Transition(row.key, ClaimFrom[s], ClaimTo[s])
    \/ \E s \in Publishers : Transition(row.key, ClaimFrom[NextStage[s]], ClaimTo[s])
    \/ \E s \in Extractors :
          \/ Transition(row.key, ClaimTo[s], ClaimFrom[NextStage[s]])
          \/ TransitionToFailed(row.key, ClaimTo[s])
    \/ \E s \in Stages : Fails(s)

(* The writes that concern findings or documents too.                      *)
VerdictWrite ==
    \/ CompleteValidation(row.key, "GENERATING", {})
    \/ CompleteValidation(row.key, "NEEDS_REVIEW", {"rule"})
    \/ RejectGeneration(row.key)
    \/ \E version \in Nat, valid \in BOOLEAN :
           CompleteGeneration(row.key, version, valid)

LifetimeWrite ==
    \/ row.live /\ row' = [row EXCEPT !.live = FALSE]
    \/ ~row.live /\ row.key + 1 \in Keys /\ row' = NewRow(row.key + 1)

RowStep == UNCHANGED row \/ StatusWrite \/ VerdictWrite \/ LifetimeWrite

(* A conditional write that takes place is one to the current lifecycle.   *)
LEMMA WorkerRowStep ==
    ASSUME TypeOK, NEW s \in Stages, WorkerStep(s)
    PROVE  RowStep
<1>1. CASE \E k \in Keys : Take(s, k)
  BY <1>1 DEF Take, RowStep
<1>2. CASE Publish(s) \/ Finish(s) \/ Throw(s)
  BY <1>2 DEF Publish, Finish, Throw, RowStep
<1>3. CASE \E k \in Keys : TakeThrows(s, k)
  BY <1>3 DEF TakeThrows, RowStep
<1>4. CASE Claim(s)
  BY <1>4 DEF Claim, Transition, Holds, RowStep, StatusWrite
<1>5. CASE Extract(s)
  <2>1. s \in Extractors
    BY <1>5 DEF Extract, Extractors
  <2> QED
    BY <1>5, <2>1 DEF Extract, Transition, TransitionToFailed, Holds, RowStep, StatusWrite
<1>6. CASE s = "validation" /\ Validate
  BY <1>6 DEF Validate, CompleteValidation, Holds, RowStep, VerdictWrite
<1>7. CASE s = "generation" /\ Generate
  <2>1. worker["generation"].version \in Nat
    BY StageFacts DEF TypeOK, Worker
  <2> QED
    BY <1>7, <2>1 DEF Generate, RejectGeneration, CompleteGeneration, Holds,
                      RowStep, VerdictWrite
<1>8. CASE Rollback(s)
  BY <1>8 DEF Rollback, Transition, Holds, RowStep, StatusWrite
<1> QED
  BY <1>1, <1>2, <1>3, <1>4, <1>5, <1>6, <1>7, <1>8 DEF WorkerStep

(* Failing the invoice of an exhausted job is a status write.              *)
LEMMA FailRowStep ==
    ASSUME NEW s \in Stages, NEW k,
           FailIrrecoverably(s, k) \/ FailIrrecoverablyLost(s, k)
    PROVE  RowStep
BY DEF FailIrrecoverably, FailIrrecoverablyLost, FailsIrrecoverably, Holds, Fails,
       RowStep, StatusWrite

(* Every step of the pipeline writes the row in one of the three ways, or  *)
(* not.                                                                    *)
LEMMA NextRowStep ==
    ASSUME TypeOK, [Next]_vars PROVE RowStep
<1>1. ASSUME NEW s \in Stages, WorkerStep(s) PROVE RowStep
  BY <1>1, WorkerRowStep
<1>2. ASSUME NEW s \in Stages, NEW k \in Keys, RecoverStalled(s, k) PROVE RowStep
  BY <1>2 DEF RecoverStalled, RowStep
<1>3. ASSUME ListenerStep PROVE RowStep
  BY <1>3, FailRowStep
     DEF ListenerStep, FinalizeFail, FinalizePark, CheckRegeneration, Republish, store, RowStep
<1>4. ASSUME BootStep PROVE RowStep
  <2>1. ASSUME NEW k \in Keys, BootFail(k) PROVE RowStep
    <3>1. Booting \in Stages
      BY PipelineAssumption DEF Booting, TypeOK, Boot
    <3> QED
      BY <2>1, <3>1, FailRowStep DEF BootFail
  <2> QED
    BY <1>4, <2>1 DEF BootStep, Restart, BootFailedJobs, BootPark, BootScan, BootPublish,
                      store, RowStep
<1>5. ASSUME FaultStep PROVE RowStep
  BY <1>5 DEF FaultStep, PublishFails, FinalizeFails, RepublishFails, store, RowStep
<1>6. CASE ProcessStep
  BY <1>1, <1>2, <1>3, <1>4, <1>5, <1>6 DEF ProcessStep
<1>7. CASE Crash \/ Expire \/ UNCHANGED vars
  BY <1>7 DEF Crash, Expire, vars, store, RowStep, LifetimeWrite
<1>8. CASE UploadStep
  BY <1>8, UploadLeaves DEF Renew, RowStep, LifetimeWrite
<1> QED
  BY <1>6, <1>7, <1>8 DEF Next

-------------------------------------------------------------------------------
(* A status write starts from a row without a document and ends in a       *)
(* status that has none.                                                   *)
LEMMA StatusWriteKeepsDocuments ==
    ASSUME TypeOK, DocumentsMatchStatus, StatusWrite
    PROVE  DocumentsMatchStatus'
<1>0. row \in Row
  BY DEF TypeOK, StoreTypeOK
<1>1. ASSUME NEW s \in Stages, Transition(row.key, ClaimFrom[s], ClaimTo[s])
      PROVE  DocumentsMatchStatus'
  BY <1>0, <1>1 DEF Transition, Holds, DocumentsMatchStatus, Row, Stages, ClaimFrom, ClaimTo
<1>2. ASSUME NEW s \in Publishers, Transition(row.key, ClaimFrom[NextStage[s]], ClaimTo[s])
      PROVE  DocumentsMatchStatus'
  BY <1>0, <1>2 DEF Transition, Holds, DocumentsMatchStatus, Row, Stages, ClaimFrom, ClaimTo,
                    Publishers, NextStage
<1>3. ASSUME NEW s \in Extractors,
             \/ Transition(row.key, ClaimTo[s], ClaimFrom[NextStage[s]])
             \/ TransitionToFailed(row.key, ClaimTo[s])
      PROVE  DocumentsMatchStatus'
  BY <1>0, <1>3 DEF Transition, TransitionToFailed, Holds, DocumentsMatchStatus, Row, Stages,
                    ClaimFrom, ClaimTo, Publishers, NextStage, Extractors
<1>4. ASSUME NEW s \in Stages, Fails(s)
      PROVE  DocumentsMatchStatus'
  BY <1>0, <1>4 DEF Fails, FailsIrrecoverably, Holds, DocumentsMatchStatus, Row, Stages,
                    InFlight, ClaimFrom, ClaimTo
<1> QED
  BY <1>1, <1>2, <1>3, <1>4 DEF StatusWrite

(* A generated document comes with the status that fits its verdict.       *)
LEMMA VerdictWriteKeepsDocuments ==
    ASSUME TypeOK, DocumentsMatchStatus, VerdictWrite
    PROVE  DocumentsMatchStatus'
<1>0. row \in Row
  BY DEF TypeOK, StoreTypeOK
<1>1. CASE \/ CompleteValidation(row.key, "GENERATING", {})
           \/ CompleteValidation(row.key, "NEEDS_REVIEW", {"rule"})
           \/ RejectGeneration(row.key)
  <2>1. row.documents = <<>>
    BY <1>0, <1>1 DEF CompleteValidation, RejectGeneration, Holds, DocumentsMatchStatus
  <2>2. row'.documents = <<>> /\ (row'.status = "GENERATING" => row'.findings = {})
        /\ row'.status \in {"GENERATING", "NEEDS_REVIEW"}
    BY <1>0, <1>1, <2>1 DEF CompleteValidation, RejectGeneration, Row
  <2> QED
    BY <2>2 DEF DocumentsMatchStatus
<1>2. ASSUME NEW version \in Nat, NEW valid \in BOOLEAN,
             CompleteGeneration(row.key, version, valid)
      PROVE  DocumentsMatchStatus'
  <2> DEFINE d == [version |-> version, valid |-> valid]
  <2>1. row.documents = <<>> /\ row.findings = {}
    BY <1>0, <1>2 DEF CompleteGeneration, Holds, DocumentsMatchStatus
  <2>2. row'.documents = <<d>>
    BY <1>0, <1>2, <2>1 DEF CompleteGeneration, Row
  <2>3. row'.status = (IF valid THEN "READY" ELSE "NEEDS_REVIEW")
        /\ (valid => row'.findings = {})
    BY <1>0, <1>2, <2>1 DEF CompleteGeneration, Row
  <2> QED
    BY <2>2, <2>3 DEF DocumentsMatchStatus
<1> QED
  BY <1>1, <1>2 DEF VerdictWrite

(* No write of the row breaks the agreement.                               *)
LEMMA RowStepKeepsDocuments ==
    ASSUME TypeOK, DocumentsMatchStatus, RowStep
    PROVE  DocumentsMatchStatus'
<1>1. CASE UNCHANGED row
  BY <1>1 DEF DocumentsMatchStatus
<1>2. CASE LifetimeWrite
  <2>1. CASE row' = [row EXCEPT !.live = FALSE]
    BY <2>1 DEF DocumentsMatchStatus, TypeOK, StoreTypeOK, Row
  <2>2. CASE row' = NewRow(row.key + 1)
    <3>1. row'.documents = <<>> /\ row'.status = "UPLOADED"
      BY <2>2 DEF NewRow
    <3> QED
      BY <3>1 DEF DocumentsMatchStatus
  <2> QED
    BY <1>2, <2>1, <2>2 DEF LifetimeWrite
<1> QED
  BY <1>1, <1>2, StatusWriteKeepsDocuments, VerdictWriteKeepsDocuments DEF RowStep

(* A READY invoice has exactly one document and it is valid, no other has  *)
(* a valid one, and nothing blocking is recorded against an invoice that   *)
(* is being generated or ready: what completeValidation, completeGeneration, *)
(* the rollbacks and failIrrecoverably write fits together.                *)
THEOREM DocumentsAlwaysMatchStatus == Spec => []DocumentsMatchStatus
<1>1. Init => DocumentsMatchStatus
  BY PipelineAssumption DEF Init, NewRow, DocumentsMatchStatus, ClaimFrom, Stages
<1>2. TypeOK /\ DocumentsMatchStatus /\ [Next]_vars => DocumentsMatchStatus'
  BY NextRowStep, RowStepKeepsDocuments
<1> QED
  BY <1>1, <1>2, TypeCorrect, PTL DEF Spec
-------------------------------------------------------------------------------
(* The promise is kept: every write of the pipeline is a step of it.       *)
LEMMA AdvanceStep ==
    ASSUME row.live, row.status \notin {"GENERATING_DOCUMENT", "NEEDS_REVIEW"},
           <<row.status, row'.status>> \in Promise!LegalTransitions \cup Promise!ExhaustionEdges,
           row'.key = row.key, row'.live = row.live, row'.version = row.version,
           row'.documents = row.documents
    PROVE  Promise!Next
BY DEF Promise!Next, Promise!Advance

(* A status write is a step of the promise.                                *)
LEMMA StatusWriteKeepsPromise ==
    ASSUME TypeOK, DocumentsMatchStatus, StatusWrite
    PROVE  Promise!Next
<1>0. row \in Row
  BY DEF TypeOK, StoreTypeOK
<1>1. ASSUME NEW s \in Stages, Transition(row.key, ClaimFrom[s], ClaimTo[s])
      PROVE  Promise!Next
  BY <1>0, <1>1, AdvanceStep
     DEF Transition, Holds, Row, Stages, ClaimFrom, ClaimTo, Promise!LegalTransitions
<1>2. ASSUME NEW s \in Publishers, Transition(row.key, ClaimFrom[NextStage[s]], ClaimTo[s])
      PROVE  Promise!Next
  BY <1>0, <1>2, AdvanceStep
     DEF Transition, Holds, Row, Stages, ClaimFrom, ClaimTo, Publishers, NextStage,
         Promise!LegalTransitions
<1>3. ASSUME NEW s \in Extractors,
             \/ Transition(row.key, ClaimTo[s], ClaimFrom[NextStage[s]])
             \/ TransitionToFailed(row.key, ClaimTo[s])
      PROVE  Promise!Next
  BY <1>0, <1>3, AdvanceStep
     DEF Transition, TransitionToFailed, Holds, Row, Stages, ClaimFrom, ClaimTo, Publishers,
         NextStage, Extractors, Promise!LegalTransitions
<1>4. ASSUME NEW s \in Stages, Fails(s)
      PROVE  Promise!Next
  <2>1. /\ row.live /\ row'.status = "FAILED"
        /\ row'.key = row.key /\ row'.live = row.live /\ row'.version = row.version
        /\ row'.documents = row.documents
    BY <1>0, <1>4 DEF Fails, FailsIrrecoverably, Holds, Row
  <2>2. row.status \in {"UPLOADED", "EXTRACTING_TEXT", "TEXT_READY", "EXTRACTING_DATA",
                        "DATA_READY", "VALIDATING", "GENERATING", "GENERATING_DOCUMENT"}
    BY <1>4 DEF Fails, FailsIrrecoverably, Holds, InFlight, Stages, ClaimFrom, ClaimTo
  <2>3. CASE row.status = "GENERATING_DOCUMENT"
    <3>1. row.documents = <<>>
      BY <2>3 DEF DocumentsMatchStatus
    <3> QED
      BY <2>1, <2>3, <3>1 DEF Promise!Next, Promise!Generate
  <2>4. CASE row.status # "GENERATING_DOCUMENT"
    <3>1. row.status \in Promise!Processing
      BY <2>2, <2>4 DEF Promise!Processing, Promise!InFlight, Promise!Stages,
                        Promise!ClaimFrom, Promise!ClaimTo
    <3>2. <<row.status, row'.status>> \in Promise!ExhaustionEdges
      BY <2>1, <3>1 DEF Promise!ExhaustionEdges
    <3> QED
      BY <2>1, <2>2, <2>4, <3>2, AdvanceStep
  <2> QED
    BY <2>3, <2>4
<1> QED
  BY <1>1, <1>2, <1>3, <1>4 DEF StatusWrite

(* So is a verdict.                                                        *)
LEMMA VerdictWriteKeepsPromise ==
    ASSUME TypeOK, DocumentsMatchStatus, VerdictWrite
    PROVE  Promise!Next
<1>0. row \in Row
  BY DEF TypeOK, StoreTypeOK
<1>1. CASE \/ CompleteValidation(row.key, "GENERATING", {})
           \/ CompleteValidation(row.key, "NEEDS_REVIEW", {"rule"})
  BY <1>0, <1>1, AdvanceStep DEF CompleteValidation, Holds, Row, Promise!LegalTransitions
<1>2. CASE RejectGeneration(row.key)
  <2>1. row.documents = <<>>
    BY <1>2 DEF RejectGeneration, Holds, DocumentsMatchStatus
  <2> QED
    BY <1>0, <1>2, <2>1 DEF RejectGeneration, Holds, Row, Promise!Next, Promise!Generate
<1>3. ASSUME NEW version \in Nat, NEW valid \in BOOLEAN,
             CompleteGeneration(row.key, version, valid)
      PROVE  Promise!Next
  <2> DEFINE d == [version |-> version, valid |-> valid]
  <2>1. row.documents = <<>> /\ row.live /\ row.status = "GENERATING_DOCUMENT"
    BY <1>0, <1>3 DEF CompleteGeneration, Holds, DocumentsMatchStatus
  <2>2. row'.documents = <<d>>
    BY <1>0, <1>3, <2>1 DEF CompleteGeneration, Row
  <2>3. /\ row'.status = (IF valid THEN "READY" ELSE "NEEDS_REVIEW")
        /\ row'.key = row.key /\ row'.live = row.live /\ row'.version = row.version
    BY <1>0, <1>3 DEF CompleteGeneration, Row
  <2>4. row'.documents # <<>> /\ Len(row'.documents) = 1 /\ row'.documents[1].valid = valid
    BY <2>2
  <2> QED
    BY <2>1, <2>3, <2>4 DEF Promise!Next, Promise!Generate
<1> QED
  BY <1>1, <1>2, <1>3 DEF VerdictWrite

(* So is every write of the row, and what writes nothing is a stutter.     *)
LEMMA RowStepKeepsPromise ==
    ASSUME TypeOK, DocumentsMatchStatus, RowStep
    PROVE  [Promise!Next]_Promise!vars
<1>1. CASE UNCHANGED row
  BY <1>1 DEF Promise!vars
<1>2. CASE row.live /\ row' = [row EXCEPT !.live = FALSE]
  BY <1>2 DEF TypeOK, StoreTypeOK, Row, Promise!Next, Promise!Expire
<1>3. CASE ~row.live /\ row' = NewRow(row.key + 1)
  BY <1>3 DEF NewRow, Promise!Next, Promise!Renew
<1> QED
  BY <1>1, <1>2, <1>3, StatusWriteKeepsPromise, VerdictWriteKeepsPromise
     DEF RowStep, LifetimeWrite

(* The four stages with their workers, retries, listeners, crashes,        *)
(* startups and rollbacks implement the lifecycle of LifecyclePromise.     *)
THEOREM PipelineImplementsPromise == Spec => ImplementsPromise
<1>1. Init => Promise!Init
  BY PipelineAssumption DEF Init, NewRow, Promise!Init, Promise!Stages, Promise!ClaimFrom,
                            Stages, ClaimFrom
<1>2. TypeOK /\ DocumentsMatchStatus /\ [Next]_vars => [Promise!Next]_Promise!vars
  BY NextRowStep, RowStepKeepsPromise
<1> QED
  BY <1>1, <1>2, TypeCorrect, DocumentsAlwaysMatchStatus, PTL
     DEF Spec, ImplementsPromise, Promise!Spec
-------------------------------------------------------------------------------
(* Work for an earlier storage key cannot touch the row.                   *)
LEMMA WorkerLeavesOthersAlone ==
    ASSUME TypeOK, NEW s \in Stages, WorkerStep(s)
    PROVE  LeavesOthersAlone
<1>1. CASE (\E k \in Keys : Take(s, k) \/ TakeThrows(s, k))
           \/ Publish(s) \/ Finish(s) \/ Throw(s)
  BY <1>1 DEF Take, TakeThrows, Publish, Finish, Throw, LeavesOthersAlone
<1>2. CASE Claim(s) \/ Extract(s) \/ (s = "validation" /\ Validate)
           \/ (s = "generation" /\ Generate) \/ Rollback(s)
  <2>1. UNCHANGED <<failing, boot>>
    BY <1>2 DEF Claim, Extract, Validate, Generate, Rollback
  <2>2. \E pc : Goto(s, pc)
    BY <1>2 DEF Claim, Extract, Validate, Generate, Rollback
  <2>3. \A r \in Stages : r # s => worker'[r] = worker[r]
    BY <2>2 DEF Goto, TypeOK
  <2>4. row' # row => worker[s].key = row.key
    BY <1>2 DEF Claim, Extract, Validate, Generate, Rollback, Transition, TransitionToFailed,
                CompleteValidation, RejectGeneration, CompleteGeneration, Holds
  <2> QED
    BY <2>1, <2>3, <2>4 DEF LeavesOthersAlone
<1> QED
  BY <1>1, <1>2 DEF WorkerStep

(* Nor can the listener of an earlier key,                                 *)
LEMMA FinalizerLeavesOthersAlone ==
    ASSUME TypeOK, NEW s \in Stages, NEW k \in Keys, FinalizeFail(s, k)
    PROVE  LeavesOthersAlone
<1>1. \A r \in Stages, l \in Keys : r # s \/ l # k => failing'[r][l] = failing[r][l]
  BY DEF FinalizeFail, TypeOK
<1>2. row' # row => k = row.key
  BY DEF FinalizeFail, FailIrrecoverably, FailIrrecoverablyLost, FailsIrrecoverably, Holds
<1> QED
  BY <1>1, <1>2 DEF FinalizeFail, LeavesOthersAlone

(* nor the startup with a failed job of one.                               *)
LEMMA ReconcilerLeavesOthersAlone ==
    ASSUME TypeOK, NEW k \in Keys, BootFail(k)
    PROVE  LeavesOthersAlone
<1>1. boot \in Boot
  BY DEF TypeOK
<1>2. \A l \in Keys : l \in boot.todo \ boot'.todo => l = k
  BY <1>1 DEF BootFail, Boot
<1>3. row' # row => k = row.key
  BY DEF BootFail, FailIrrecoverably, FailIrrecoverablyLost, FailsIrrecoverably, Holds
<1> QED
  BY <1>2, <1>3 DEF BootFail, LeavesOthersAlone

(* No step touches the row on behalf of an earlier key.                    *)
LEMMA NextLeavesOthersAlone ==
    ASSUME TypeOK, [Next]_vars PROVE LeavesOthersAlone
<1>1. ASSUME UNCHANGED row PROVE LeavesOthersAlone
  BY <1>1 DEF LeavesOthersAlone
<1>2. ASSUME UNCHANGED process PROVE LeavesOthersAlone
  BY <1>2 DEF process, LeavesOthersAlone
<1>3. ASSUME ListenerStep PROVE LeavesOthersAlone
  BY <1>1, <1>3, FinalizerLeavesOthersAlone
     DEF ListenerStep, FinalizePark, CheckRegeneration, Republish, store
<1>4. ASSUME BootStep PROVE LeavesOthersAlone
  BY <1>1, <1>4, ReconcilerLeavesOthersAlone
     DEF BootStep, Restart, BootFailedJobs, BootPark, BootScan, BootPublish, store
<1>5. ASSUME FaultStep PROVE LeavesOthersAlone
  BY <1>1, <1>5 DEF FaultStep, PublishFails, FinalizeFails, RepublishFails, store
<1>6. CASE ProcessStep
  BY <1>1, <1>3, <1>4, <1>5, <1>6, WorkerLeavesOthersAlone DEF ProcessStep, RecoverStalled
<1>7. CASE Crash \/ Expire \/ UNCHANGED vars
  BY <1>1, <1>2, <1>7 DEF Crash, Expire, vars, store
<1>8. CASE UploadStep
  BY <1>8, UploadLeaves DEF LeavesOthersAlone
<1> QED
  BY <1>6, <1>7, <1>8 DEF Next

(* Every write of a worker, a failure listener or a reconciler names the   *)
(* storage key of its job, so that one of an earlier lifecycle changes     *)
(* nothing in the row, however late it comes.                              *)
THEOREM StaleWorkIsAlwaysHarmless == Spec => StaleWorkIsHarmless
<1>1. TypeOK /\ [Next]_vars => [LeavesOthersAlone]_vars
  BY NextLeavesOthersAlone
<1> QED
  BY <1>1, TypeCorrect, PTL DEF Spec, StaleWorkIsHarmless
-------------------------------------------------------------------------------
(* Failed jobs stay in their queue, and dead letters stay where they are.  *)
JobsKept ==
    \A r \in Stages, l \in Keys : job[r][l].state = "failed" => job'[r][l].state = "failed"

LettersKept ==
    \A r \in Stages, l \in Keys : HasDeadLetter(r, l) => HasDeadLetter(r, l)'

(* Publishing keeps the failed jobs: their ids are taken.                  *)
LEMMA EnqueueKeepsJobs ==
    ASSUME IInv, NEW s \in Stages, NEW k \in Keys, Enqueue(s, k)
    PROVE  JobsKept
<1>1. job \in JobTable
  BY DEF IInv, TypeOK, StoreTypeOK, JobTable
<1>2. \A r \in Stages, l \in Keys :
          job'[r][l] = job[r][l] \/ job[r][l].state = "none"
  BY <1>1, EnqueuedFacts DEF Enqueue
<1> QED
  BY <1>2 DEF JobsKept

(* Changing one job that has not failed keeps them.                        *)
LEMMA JobChangeKeepsJobs ==
    ASSUME IInv, NEW s \in Stages, NEW k \in Keys, job[s][k].state # "failed",
           NEW j, job' = [job EXCEPT ![s][k] = j]
    PROVE  JobsKept
<1>1. \A r \in Stages, l \in Keys : r # s \/ l # k => job'[r][l] = job[r][l]
  BY DEF IInv, TypeOK, StoreTypeOK
<1> QED
  BY <1>1 DEF JobsKept

(* Workers change active and waiting jobs only.                            *)
LEMMA WorkerKeepsJobs ==
    ASSUME IInv, NEW s \in Stages, WorkerStep(s)
    PROVE  JobsKept
<1>0. worker[s].key \in Keys
  BY DEF IInv, TypeOK, Worker
<1>1. ASSUME NEW k \in Keys, Take(s, k) PROVE JobsKept
  <2>1. job' = [job EXCEPT ![s][k] = [job[s][k] EXCEPT !.state = "active"]]
        /\ job[s][k].state # "failed"
    BY <1>1 DEF Take, IInv, TypeOK, StoreTypeOK
  <2> QED
    BY <2>1, JobChangeKeepsJobs
<1>2. ASSUME NEW k \in Keys, TryAgain(s, k), job[s][k].state # "failed" PROVE JobsKept
  <2> DEFINE made == job[s][k].made + 1
             j == [job[s][k] EXCEPT !.made = made,
                      !.state = IF made < Attempts THEN "waiting" ELSE "failed"]
  <2>1. job' = [job EXCEPT ![s][k] = j]
    BY <1>2 DEF TryAgain, IInv, TypeOK, StoreTypeOK
  <2> HIDE DEF j
  <2> QED
    BY <1>2, <2>1, JobChangeKeepsJobs
<1>3. ASSUME worker[s].pc # "idle" PROVE job[s][worker[s].key].state # "failed"
  BY <1>3 DEF IInv, QueuesAgree
<1>4. CASE \E k \in Keys : TakeThrows(s, k)
  BY <1>2, <1>4 DEF TakeThrows
<1>5. CASE Throw(s)
  BY <1>0, <1>2, <1>3, <1>5 DEF Throw, At
<1>6. CASE Finish(s)
  <2>1. job' = [job EXCEPT ![s][worker[s].key] = NoJob] /\ worker[s].pc # "idle"
    BY <1>6 DEF Finish, At
  <2> QED
    BY <1>0, <1>3, <2>1, JobChangeKeepsJobs
<1>7. CASE Publish(s)
  <2>1. Enqueue(NextStage[s], worker[s].key) /\ NextStage[s] \in Stages
    BY <1>7, StageFacts DEF Publish
  <2> QED
    BY <1>0, <2>1, EnqueueKeepsJobs
<1>8. CASE Claim(s) \/ Extract(s) \/ (s = "validation" /\ Validate)
           \/ (s = "generation" /\ Generate) \/ Rollback(s)
  BY <1>8 DEF Claim, Extract, Validate, Generate, Rollback, JobsKept
<1> QED
  BY <1>1, <1>4, <1>5, <1>6, <1>7, <1>8 DEF WorkerStep

(* A failed job stays failed, whatever the step.                           *)
LEMMA NextKeepsJobs ==
    ASSUME IInv, [Next]_vars PROVE JobsKept
<1>1. ASSUME UNCHANGED job PROVE JobsKept
  BY <1>1 DEF JobsKept
<1>2. ASSUME NEW s \in Stages, NEW k \in Keys, RecoverStalled(s, k) PROVE JobsKept
  <2>1. job[s][k].state # "failed" /\ \E j : job' = [job EXCEPT ![s][k] = j]
    <3>1. CASE job[s][k].stalls < MaxStalls
      BY <1>2, <3>1 DEF RecoverStalled, IInv, TypeOK, StoreTypeOK
    <3>2. CASE ~(job[s][k].stalls < MaxStalls)
      BY <1>2, <3>2 DEF RecoverStalled, IInv, TypeOK, StoreTypeOK
    <3> QED
      BY <3>1, <3>2
  <2> QED
    BY <2>1, JobChangeKeepsJobs
<1>3. ASSUME NEW k \in Keys, Republish(k) PROVE JobsKept
  BY <1>3, StageFacts, EnqueueKeepsJobs DEF Republish
<1>4. CASE ListenerStep
  BY <1>1, <1>3, <1>4
     DEF ListenerStep, FinalizeFail, FinalizePark, CheckRegeneration, store
<1>5. ASSUME BootPublish PROVE JobsKept
  <2>1. Booting \in Stages /\ boot.key \in Keys
    BY PipelineAssumption DEF IInv, TypeOK, Boot, Booting
  <2> QED
    BY <1>5, <2>1, EnqueueKeepsJobs DEF BootPublish
<1>6. CASE BootStep
  BY <1>1, <1>5, <1>6
     DEF BootStep, Restart, BootFailedJobs, BootFail, BootPark, BootScan, store
<1>7. ASSUME NEW s \in Stages, PublishFails(s) PROVE JobsKept
  <2>1. CASE UNCHANGED job
    BY <1>1, <2>1
  <2>2. CASE Enqueue(NextStage[s], worker[s].key)
    <3>1. NextStage[s] \in Stages /\ worker[s].key \in Keys
      BY <1>7, StageFacts DEF PublishFails, IInv, TypeOK, Worker
    <3> QED
      BY <2>2, <3>1, EnqueueKeepsJobs
  <2> QED
    BY <1>7, <2>1, <2>2 DEF PublishFails
<1>8. CASE FaultStep
  BY <1>1, <1>7, <1>8 DEF FaultStep, FinalizeFails, RepublishFails, store
<1>9. CASE UploadStep
  <2>1. TypeOK /\ "text-extraction" \in Stages
    BY StageFacts DEF IInv
  <2> QED
    BY <1>1, <1>9, <2>1, UploadFacts, EnqueueKeepsJobs DEF Enqueue
<1>10. CASE Crash \/ Expire \/ UNCHANGED vars
  BY <1>1, <1>10 DEF Crash, Expire, vars, store
<1> QED
  BY <1>2, <1>4, <1>6, <1>8, <1>9, <1>10, WorkerKeepsJobs DEF Next, ProcessStep

(* Parking a job keeps the dead letters there are.                         *)
LEMMA MoveToDlqKeepsLetters ==
    ASSUME TypeOK, NEW s \in Stages, NEW k \in Keys, MoveToDlq(s, k)
    PROVE  LettersKept /\ HasDeadLetter(s, k)'
<1>0. deadLetters \in [Keys -> Seq(Stages)]
  BY DEF TypeOK, StoreTypeOK
<1>1. CASE HasDeadLetter(s, k)
  BY <1>1 DEF MoveToDlq, LettersKept, HasDeadLetter
<1>2. CASE ~HasDeadLetter(s, k)
  <2>1. deadLetters' = [deadLetters EXCEPT ![k] = Append(deadLetters[k], s)]
    BY <1>2 DEF MoveToDlq
  <2>2. \A l \in Keys : l # k => deadLetters'[l] = deadLetters[l]
    BY <1>0, <2>1
  <2>3. deadLetters[k] \in Seq(Stages) /\ deadLetters'[k] = Append(deadLetters[k], s)
    BY <1>0, <2>1
  <2>4. /\ \A i \in DOMAIN deadLetters[k] :
              i \in DOMAIN deadLetters'[k] /\ deadLetters'[k][i] = deadLetters[k][i]
        /\ Len(deadLetters[k]) + 1 \in DOMAIN deadLetters'[k]
        /\ deadLetters'[k][Len(deadLetters[k]) + 1] = s
    BY <2>3
  <2> QED
    BY <2>2, <2>4 DEF LettersKept, HasDeadLetter
<1> QED
  BY <1>1, <1>2

(* A dead letter stays, whatever the step.                                 *)
LEMMA NextKeepsLetters ==
    ASSUME TypeOK, [Next]_vars PROVE LettersKept
<1>1. ASSUME UNCHANGED deadLetters PROVE LettersKept
  BY <1>1 DEF LettersKept, HasDeadLetter
<1>2. ASSUME NEW s \in Stages, WorkerStep(s) PROVE LettersKept
  BY <1>1, <1>2
     DEF WorkerStep, Take, TakeThrows, Claim, Extract, Validate, Generate, Publish,
         Rollback, Finish, Throw
<1>3. CASE ListenerStep
  BY <1>1, <1>3, MoveToDlqKeepsLetters
     DEF ListenerStep, FinalizeFail, FinalizePark, CheckRegeneration, Republish, store
<1>4. CASE BootStep
  <2>1. Booting \in Stages /\ boot.key \in Keys
    BY PipelineAssumption DEF TypeOK, Boot, Booting
  <2>2. CASE BootPark
    BY <2>1, <2>2, MoveToDlqKeepsLetters DEF BootPark
  <2> QED
    BY <1>1, <1>4, <2>2
       DEF BootStep, Restart, BootFailedJobs, BootFail, BootScan, BootPublish, store
<1>5. CASE FaultStep \/ \E s \in Stages, k \in Keys : RecoverStalled(s, k)
  BY <1>1, <1>5 DEF FaultStep, PublishFails, FinalizeFails, RepublishFails, RecoverStalled, store
<1>6. CASE Crash \/ Expire \/ UploadStep \/ UNCHANGED vars
  BY <1>1, <1>6, UploadLeaves DEF Crash, Expire, vars, store
<1> QED
  BY <1>2, <1>3, <1>4, <1>5, <1>6 DEF Next, ProcessStep
(* A step that fails the row because the retries of a stage are exhausted. *)
Exhausts(s) == ~AlreadyExhausted(s, row.key) /\ AlreadyExhausted(s, row.key)'

(* Only those who hold a failed job take it: no worker does.               *)
LEMMA WorkerExhaustsNothing ==
    ASSUME TypeOK, NEW r \in Stages, WorkerStep(r), NEW s \in Stages
    PROVE  ~Exhausts(s)
<1>0. row \in Row
  BY DEF TypeOK, StoreTypeOK
<1>1. ASSUME UNCHANGED row PROVE ~Exhausts(s)
  BY <1>1 DEF Exhausts, AlreadyExhausted, Holds
<1>2. ASSUME row'.status # "FAILED" \/ row'.failure = "content" PROVE ~Exhausts(s)
  BY <1>2 DEF Exhausts, AlreadyExhausted, Holds, Stages
<1>3. CASE Claim(r)
  BY <1>0, <1>1, <1>2, <1>3 DEF Claim, Transition, Row, ClaimTo, Stages
<1>4. CASE Extract(r)
  BY <1>0, <1>1, <1>2, <1>4
     DEF Extract, Transition, TransitionToFailed, Row, ClaimFrom, NextStage, Publishers, Stages
<1>5. CASE r = "validation" /\ Validate
  BY <1>0, <1>1, <1>2, <1>5 DEF Validate, CompleteValidation, Row
<1>6. CASE r = "generation" /\ Generate
  <2>1. row' = row \/ row'.status \in {"NEEDS_REVIEW", "READY"}
    BY <1>0, <1>6 DEF Generate, RejectGeneration, CompleteGeneration, Row
  <2> QED
    BY <1>1, <1>2, <2>1
<1>7. CASE Rollback(r)
  BY <1>0, <1>1, <1>2, <1>7 DEF Rollback, Transition, Row, ClaimTo, Publishers, Stages
<1> QED
  BY <1>1, <1>3, <1>4, <1>5, <1>6, <1>7
     DEF WorkerStep, Take, TakeThrows, Publish, Finish, Throw

(* A failure for good exhausts one stage at most.                          *)
LEMMA FailExhaustsOne ==
    ASSUME TypeOK, NEW r \in Stages, NEW k \in Keys, NEW s \in Stages, Exhausts(s),
           FailIrrecoverably(r, k) \/ FailIrrecoverablyLost(r, k)
    PROVE  r = s /\ k = row.key
<1>1. row \in Row
  BY DEF TypeOK, StoreTypeOK
<1>2. row' # row
  BY DEF Exhausts, AlreadyExhausted, Holds
<1>3. FailsIrrecoverably(r, k) /\ row' = [row EXCEPT !.status = "FAILED", !.failure = r]
  BY <1>2 DEF FailIrrecoverably, FailIrrecoverablyLost
<1>4. k = row.key /\ row'.failure = r
  BY <1>1, <1>3 DEF FailsIrrecoverably, Holds, Row
<1>5. row'.failure = s
  BY DEF Exhausts, AlreadyExhausted
<1> QED
  BY <1>4, <1>5

(* Whoever exhausts a stage holds its failed job.                          *)
LEMMA ExhaustionHasFailedJob ==
    ASSUME IInv, [Next]_vars, NEW s \in Stages, Exhausts(s)
    PROVE  job[s][row.key].state = "failed"
<1>0. TypeOK /\ row \in Row
  BY DEF IInv, TypeOK, StoreTypeOK
<1>1. ASSUME row' = row PROVE FALSE
  BY <1>1 DEF Exhausts, AlreadyExhausted, Holds
<1>2. ASSUME ListenerStep PROVE job[s][row.key].state = "failed"
  <2>1. PICK r \in Stages, k \in Keys : FinalizeFail(r, k)
    BY <1>1, <1>2 DEF ListenerStep, FinalizePark, CheckRegeneration, Republish, store
  <2>2. r = s /\ k = row.key
    BY <1>0, <2>1, FailExhaustsOne DEF FinalizeFail
  <2>3. failing[r][k] = "fail"
    BY <2>1 DEF FinalizeFail
  <2> QED
    BY <2>2, <2>3 DEF IInv, QueuesAgree
<1>3. ASSUME BootStep PROVE job[s][row.key].state = "failed"
  <2>1. PICK k \in Keys : BootFail(k)
    BY <1>1, <1>3 DEF BootStep, Restart, BootFailedJobs, BootPark, BootScan, BootPublish, store
  <2>2. Booting \in Stages
    BY <1>0, PipelineAssumption DEF TypeOK, Boot, Booting
  <2>3. Booting = s /\ k = row.key
    BY <1>0, <2>1, <2>2, FailExhaustsOne DEF BootFail
  <2>4. k \in boot.todo
    BY <2>1 DEF BootFail
  <2> QED
    BY <2>3, <2>4 DEF IInv, QueuesAgree
<1>4. ASSUME FaultStep \/ \E r \in Stages, k \in Keys : RecoverStalled(r, k) PROVE FALSE
  BY <1>1, <1>4 DEF FaultStep, PublishFails, FinalizeFails, RepublishFails, RecoverStalled, store
<1>5. ASSUME Crash \/ UNCHANGED vars PROVE FALSE
  BY <1>1, <1>5 DEF Crash, vars, store
<1>6. ASSUME Expire \/ UploadStep PROVE FALSE
  <2>1. row'.live = FALSE \/ row'.status = "UPLOADED"
    BY <1>0, <1>1, <1>6, UploadLeaves DEF Expire, Renew, NewRow, Row
  <2> QED
    BY <2>1 DEF Exhausts, AlreadyExhausted, Holds
<1>7. ASSUME NEW r \in Stages, WorkerStep(r) PROVE FALSE
  BY <1>0, <1>7, WorkerExhaustsNothing
<1> QED
  BY <1>2, <1>3, <1>4, <1>5, <1>6, <1>7 DEF Next, ProcessStep

(* So an exhausted stage keeps its failed job or its dead letter.          *)
LEMMA NextKeepsRecoverable ==
    ASSUME IInv, ExhaustedIsRecoverable, [Next]_vars
    PROVE  ExhaustedIsRecoverable'
<1> SUFFICES ASSUME NEW s \in Stages, AlreadyExhausted(s, row.key)'
             PROVE  (HasDeadLetter(s, row.key) \/ job[s][row.key].state = "failed")'
  BY DEF ExhaustedIsRecoverable
<1>1. TypeOK /\ row \in Row
  BY DEF IInv, TypeOK, StoreTypeOK
<1>2. row'.key = row.key
  <2>1. RowStep /\ row'.status = "FAILED"
    BY <1>1, NextRowStep DEF AlreadyExhausted, Holds
  <2>2. CASE UNCHANGED row
    BY <2>2
  <2>3. CASE StatusWrite
    BY <1>1, <2>3 DEF StatusWrite, Transition, TransitionToFailed, Fails, Row
  <2>4. CASE VerdictWrite
    BY <1>1, <2>4
       DEF VerdictWrite, CompleteValidation, RejectGeneration, CompleteGeneration, Row
  <2>5. CASE LifetimeWrite
    BY <1>1, <2>1, <2>5 DEF LifetimeWrite, NewRow, Row
  <2> QED
    BY <2>1, <2>2, <2>3, <2>4, <2>5 DEF RowStep
<1>3. row.key \in Keys
  BY <1>1 DEF Row
<1>4. HasDeadLetter(s, row.key) \/ job[s][row.key].state = "failed"
  BY ExhaustionHasFailedJob DEF Exhausts, ExhaustedIsRecoverable
<1>5. JobsKept /\ LettersKept
  BY <1>1, NextKeepsJobs, NextKeepsLetters
<1>6. CASE HasDeadLetter(s, row.key)
  BY <1>2, <1>3, <1>5, <1>6 DEF LettersKept, HasDeadLetter
<1>7. CASE job[s][row.key].state = "failed"
  BY <1>2, <1>3, <1>5, <1>7 DEF JobsKept
<1> QED
  BY <1>4, <1>6, <1>7

(* Between the statement that fails the row and the one that writes its    *)
(* dead letter anything may happen, death included; the job that BullMQ    *)
(* keeps among the failed ones is what a startup, and so a retry, can go   *)
(* back to.  (Retries themselves are not part of this specification.)      *)
THEOREM ExhaustedIsAlwaysRecoverable == Spec => []ExhaustedIsRecoverable
<1>1. Init => ExhaustedIsRecoverable
  BY PipelineAssumption
     DEF Init, NewRow, ExhaustedIsRecoverable, AlreadyExhausted, Holds, ClaimFrom, Stages
<1>2. IInv /\ ExhaustedIsRecoverable /\ [Next]_vars => ExhaustedIsRecoverable'
  BY NextKeepsRecoverable
<1> QED
  BY <1>1, <1>2, Bookkeeping, PTL DEF Spec

-------------------------------------------------------------------------------
(* Nothing in the process runs ahead of the row: what is queued, running,  *)
(* listened for or reconciled is of a key that the row has had.            *)
JobsPast == \A s \in Stages, k \in Keys : job[s][k].state # "none" => k <= row.key

UploadsPast ==
    \A k \in Keys : upload[k].pc # "none" \/ upload[k].stored => k <= row.key

ProcessPast ==
    /\ \A s \in Stages : worker[s].key <= row.key
    /\ \A k \in Keys : completing[k] # "none" => k <= row.key
    /\ boot.key <= row.key /\ \A k \in boot.todo : k <= row.key
    /\ UploadsPast

KeyAges == row'.key >= row.key

(* The keys compared below are numbers, and the row's never falls.         *)
LEMMA KeyFacts ==
    ASSUME CInv, CInv', KeyAges
    PROVE  /\ \A k \in Keys : k \in Nat /\ 1 <= k
           /\ row.key \in Keys /\ row'.key \in Keys /\ 1 \in Keys
           /\ row.key <= row'.key
           /\ \A k \in Keys : k <= row.key => k <= row'.key
           /\ 1 <= row.key /\ 1 <= row'.key
<1>1. row.key \in Keys /\ row'.key \in Keys
  BY DEF CInv, TypeOK, StoreTypeOK, Row
<1>2. row.key <= row'.key
  BY DEF KeyAges
<1> QED
  BY <1>1, <1>2, StoreAssumption DEF Keys

(* A step that changes one job at most, of a key the row has reached.      *)
LEMMA JobChangePast ==
    ASSUME CInv, CInv', KeyAges, JobsPast,
           NEW s \in Stages, NEW k \in Keys, k <= row'.key,
           \A r \in Stages, l \in Keys :
               job'[r][l] = job[r][l] \/ (r = s /\ l = k) \/ job'[r][l].state = "none"
    PROVE  JobsPast'
BY KeyFacts DEF JobsPast

(* An enqueue is one.                                                      *)
LEMMA EnqueuePast ==
    ASSUME CInv, CInv', KeyAges, JobsPast,
           NEW s \in Stages, NEW k \in Keys, k <= row'.key, Enqueue(s, k)
    PROVE  JobsPast'
<1>1. job \in JobTable
  BY DEF CInv, TypeOK, StoreTypeOK, JobTable
<1>2. \A r \in Stages, l \in Keys : job'[r][l] = job[r][l] \/ (r = s /\ l = k)
  BY <1>1 DEF Enqueue, Enqueued, JobTable
<1> QED
  BY <1>2, JobChangePast

(* So is any step on an existing job.                                      *)
LEMMA ExistingJobPast ==
    ASSUME CInv, CInv', KeyAges, JobsPast,
           NEW s \in Stages, NEW k \in Keys, job[s][k].state # "none" \/ k <= row.key,
           \E j : job' = [job EXCEPT ![s][k] = j]
    PROVE  JobsPast'
<1>1. job \in JobTable
  BY DEF CInv, TypeOK, StoreTypeOK, JobTable
<1>2. \A r \in Stages, l \in Keys : job'[r][l] = job[r][l] \/ (r = s /\ l = k)
  BY <1>1 DEF JobTable
<1>3. k <= row'.key
  BY KeyFacts DEF JobsPast
<1> QED
  BY <1>2, <1>3, JobChangePast

(* What the workers, the listeners and the startup do leaves the uploads.  *)
LEMMA ProcessLeavesUploads ==
    ASSUME ProcessStep PROVE UNCHANGED upload
<1>1. \A s \in Stages : WorkerStep(s) => UNCHANGED upload
  BY DEF WorkerStep, Take, TakeThrows, Claim, Extract, Validate, Generate, Publish,
         Rollback, Finish, Throw
<1>2. ListenerStep \/ FaultStep => UNCHANGED upload
  BY DEF ListenerStep, FinalizeFail, FinalizePark, CheckRegeneration, Republish,
         FaultStep, PublishFails, FinalizeFails, RepublishFails
<1>3. BootStep => UNCHANGED upload
  BY DEF BootStep, Restart, BootFailedJobs, BootFail, BootPark, BootScan, BootPublish
<1> QED
  BY <1>1, <1>2, <1>3 DEF ProcessStep, RecoverStalled

(* Then the uploads stay in the past,                                      *)
LEMMA SameUploadsPast ==
    ASSUME CInv, CInv', KeyAges, ProcessPast, UNCHANGED upload
    PROVE  UploadsPast'
BY KeyFacts DEF ProcessPast, UploadsPast

(* and so they do at every step of their own.                              *)
LEMMA UploadStepPast ==
    ASSUME CInv, CInv', KeyAges, ProcessPast, UploadStep
    PROVE  UploadsPast'
<1>0. row.key \in Keys /\ upload \in [Keys -> Upload]
  BY KeyFacts DEF CInv, TypeOK
<1>1. ASSUME NEW k \in Keys, k <= row'.key,
             \A l \in Keys : l # k => /\ upload'[l].pc # "none" => upload[l].pc # "none"
                                      /\ upload'[l].stored => upload[l].stored
      PROVE  UploadsPast'
  BY <1>1, KeyFacts DEF ProcessPast, UploadsPast
<1>2. CASE Renew
  <2>1. row'.key = row.key + 1 /\ row.key + 1 \in Keys
    BY <1>2 DEF Renew, NewRow
  <2>2. row.key + 1 <= row'.key
    BY <2>1, StoreAssumption DEF Keys
  <2>3. \A l \in Keys : l # row.key + 1 =>
            /\ upload'[l].pc # "none" => upload[l].pc # "none"
            /\ upload'[l].stored => upload[l].stored
    BY <1>0, <1>2 DEF Renew, Upload
  <2> QED
    BY <1>1, <2>1, <2>2, <2>3
<1>3. CASE RepeatUpload
  <2>1. row.key <= row'.key
    BY KeyFacts
  <2>2. \A l \in Keys : l # row.key => upload'[l] = upload[l]
    BY <1>0, <1>3 DEF RepeatUpload
  <2> QED
    BY <1>0, <1>1, <2>1, <2>2
<1>4. ASSUME NEW k \in Keys, SaveFile(k) \/ EnqueueUpload(k) \/ EnqueueUploadFails(k)
      PROVE  UploadsPast'
  <2>1. upload[k].pc # "none"
    BY <1>4 DEF SaveFile, EnqueueUpload, EnqueueUploadFails
  <2>2. k <= row'.key
    BY <2>1, KeyFacts DEF ProcessPast, UploadsPast
  <2>3. \A l \in Keys : l # k => upload'[l] = upload[l]
    BY <1>0, <1>4 DEF SaveFile, EnqueueUpload, EnqueueUploadFails
  <2> QED
    BY <1>1, <2>2, <2>3
<1> QED
  BY <1>2, <1>3, <1>4 DEF UploadStep

(* The other steps leave the jobs.                                         *)
LEMMA SameJobsPast ==
    ASSUME CInv, CInv', KeyAges, JobsPast, UNCHANGED job
    PROVE  JobsPast'
BY KeyFacts DEF JobsPast

(* A worker takes the job that is there, and then works on its key alone.  *)
LEMMA WorkerPast ==
    ASSUME CInv, CInv', KeyAges, JobsPast, ProcessPast, NEW s \in Stages, WorkerStep(s)
    PROVE  /\ JobsPast'
           /\ worker'[s].key <= row'.key
           /\ \A r \in Stages \ {s} : worker'[r] = worker[r]
           /\ \A k \in Keys : completing'[k] # "none" => completing[k] # "none" \/ k <= row.key
           /\ UNCHANGED boot
<1>0. /\ worker \in [Stages -> Worker] /\ worker[s].key \in Keys /\ worker[s].key <= row.key
      /\ completing \in [Keys -> {"none", "check", "publish"}]
      /\ NextStage \in [Publishers -> Stages]
  BY StageFacts DEF CInv, TypeOK, Worker, ProcessPast
<1>1. AtRest.key = 1
  BY DEF AtRest
<1>2. ASSUME NEW k \in Keys, Take(s, k) \/ TakeThrows(s, k)
      PROVE  /\ JobsPast'
             /\ worker'[s].key <= row'.key
             /\ \A r \in Stages \ {s} : worker'[r] = worker[r]
             /\ UNCHANGED <<completing, boot>>
  <2>1. job[s][k].state = "waiting" /\ UNCHANGED <<row, completing, boot>>
    BY <1>2 DEF Take, TakeThrows
  <2>2. k <= row.key
    BY <2>1 DEF JobsPast
  <2>3. \E j : job' = [job EXCEPT ![s][k] = j]
    BY <1>2 DEF Take, TakeThrows, TryAgain
  <2>4. JobsPast'
    BY <2>1, <2>3, ExistingJobPast
  <2>5. worker'[s].key <= row'.key /\ \A r \in Stages \ {s} : worker'[r] = worker[r]
    BY <1>0, <1>2, <2>1, <2>2, KeyFacts DEF Take, TakeThrows
  <2> QED
    BY <2>1, <2>4, <2>5
<1>3. CASE Throw(s) \/ Finish(s)
  <2>1. /\ UNCHANGED <<row, boot>> /\ Rest(s)
        /\ \E j : job' = [job EXCEPT ![s][worker[s].key] = j]
        /\ \/ UNCHANGED completing
           \/ completing' = [completing EXCEPT ![worker[s].key] = "check"]
    BY <1>3 DEF Throw, Finish, TryAgain
  <2>2. JobsPast'
    BY <1>0, <2>1, ExistingJobPast
  <2>3. worker'[s].key <= row'.key /\ \A r \in Stages \ {s} : worker'[r] = worker[r]
    BY <1>0, <1>1, <2>1, KeyFacts DEF Rest
  <2> QED
    BY <1>0, <2>1, <2>2, <2>3
<1>4. CASE Publish(s)
  <2>1. /\ s \in Publishers /\ Enqueue(NextStage[s], worker[s].key)
        /\ Goto(s, "finish") /\ UNCHANGED <<completing, boot>>
    BY <1>4 DEF Publish
  <2>2. NextStage[s] \in Stages
    BY <1>0, <2>1
  <2>3. worker[s].key <= row'.key
    BY <1>0, KeyFacts
  <2>4. JobsPast'
    BY <1>0, <2>1, <2>2, <2>3, EnqueuePast
  <2>5. worker'[s].key = worker[s].key /\ \A r \in Stages \ {s} : worker'[r] = worker[r]
    BY <1>0, <2>1 DEF Goto, Worker
  <2> QED
    BY <2>1, <2>3, <2>4, <2>5
<1>5. CASE Claim(s) \/ Extract(s) \/ (s = "validation" /\ Validate)
           \/ (s = "generation" /\ Generate) \/ Rollback(s)
  <2>1. UNCHANGED <<job, completing, boot>> /\ \E pc : Goto(s, pc)
    BY <1>5 DEF Claim, Extract, Validate, Generate, Rollback
  <2>2. worker'[s].key = worker[s].key /\ \A r \in Stages \ {s} : worker'[r] = worker[r]
    BY <1>0, <2>1 DEF Goto, Worker
  <2>3. JobsPast'
    BY <2>1, SameJobsPast
  <2> QED
    BY <1>0, <2>1, <2>2, <2>3, KeyFacts
<1> QED
  BY <1>2, <1>3, <1>4, <1>5 DEF WorkerStep

(* The steps of the process, of the startup in particular.                 *)
LEMMA BootPast ==
    ASSUME CInv, CInv', KeyAges, JobsPast, ProcessPast, BootStep
    PROVE  JobsPast' /\ ProcessPast'
<1>0. /\ boot \in Boot /\ Booting \in Stages /\ boot.key \in Keys /\ boot.key <= row.key
      /\ row.key \in Keys /\ 1 <= row.key
  BY PipelineAssumption, KeyFacts DEF CInv, TypeOK, Boot, Booting, ProcessPast
<1>1. UNCHANGED <<worker, completing>>
  BY DEF BootStep, Restart, BootFailedJobs, BootFail, BootPark, BootScan, BootPublish, store
<1>2. UNCHANGED job \/ Enqueue(Booting, boot.key)
  BY DEF BootStep, Restart, BootFailedJobs, BootFail, BootPark, BootScan, BootPublish, store
<1>3. JobsPast'
  <2>1. boot.key <= row'.key
    BY <1>0, KeyFacts
  <2> QED
    BY <1>0, <1>2, <2>1, SameJobsPast, EnqueuePast
<1>4. boot'.key <= row.key /\ \A k \in boot'.todo : k \in Keys /\ k <= row.key
  <2>1. CASE BootFailedJobs
    <3>1. boot'.key = boot.key /\ boot'.todo = {k \in Keys : job[Booting][k].state = "failed"}
      BY <1>0, <2>1 DEF BootFailedJobs, Boot
    <3> QED
      BY <1>0, <3>1 DEF JobsPast
  <2>2. ASSUME NEW k \in Keys, BootFail(k)
        PROVE  boot'.key <= row.key /\ \A l \in boot'.todo : l \in Keys /\ l <= row.key
    BY <1>0, <2>2 DEF BootFail, Boot, ProcessPast
  <2>3. CASE Restart \/ BootPark \/ BootScan \/ BootPublish
    <3>1. \A pc : Booted(pc).key = 1 /\ Booted(pc).todo = {}
      BY DEF Booted
    <3>2. Reconciled.key = 1 /\ Reconciled.todo = {}
      BY <3>1 DEF Reconciled, Booted
    <3>3. \/ boot'.key = 1 /\ boot'.todo = {}
          \/ boot'.key = 1 /\ boot'.todo = boot.todo
          \/ boot'.key = row.key /\ boot'.todo = boot.todo
      BY <1>0, <2>3, <3>1, <3>2 DEF Restart, BootPark, BootScan, BootPublish, Boot
    <3>4. boot.todo \subseteq Keys /\ \A k \in boot.todo : k <= row.key
      BY <1>0 DEF Boot, ProcessPast
    <3>5. 1 <= row.key /\ row.key <= row.key
      BY <1>0, StoreAssumption DEF Keys
    <3> QED
      BY <1>0, <3>3, <3>4, <3>5
  <2> QED
    BY <2>1, <2>2, <2>3 DEF BootStep
<1>5. /\ \A s \in Stages : worker'[s].key <= row'.key
      /\ \A k \in Keys : completing'[k] # "none" => k <= row'.key
  BY <1>1, KeyFacts DEF ProcessPast, CInv, TypeOK, Worker
<1>6. boot'.key <= row'.key /\ \A k \in boot'.todo : k <= row'.key
  BY <1>4, KeyFacts DEF CInv, TypeOK, Boot
<1>7. UploadsPast'
  BY ProcessLeavesUploads, SameUploadsPast DEF ProcessStep
<1> QED
  BY <1>3, <1>5, <1>6, <1>7 DEF ProcessPast

(* The steps of the process.                                               *)
LEMMA ProcessStepPast ==
    ASSUME CInv, CInv', KeyAges, JobsPast, ProcessPast, ProcessStep
    PROVE  JobsPast' /\ ProcessPast'
<1>0. /\ worker \in [Stages -> Worker] /\ boot \in Boot
      /\ completing \in [Keys -> {"none", "check", "publish"}] /\ "generation" \in Stages
      /\ \A s \in Publishers : s \in Stages /\ NextStage[s] \in Stages
      /\ \A s \in Stages : worker[s].key \in Keys /\ worker[s].key <= row'.key
  BY StageFacts, KeyFacts DEF CInv, TypeOK, Worker, ProcessPast
<1>1. ASSUME UNCHANGED boot, \A s \in Stages : worker'[s].key <= row'.key,
             \A k \in Keys : completing'[k] # "none" => completing[k] # "none" \/ k <= row.key
      PROVE  ProcessPast'
  <2>1. UploadsPast'
    BY ProcessLeavesUploads, SameUploadsPast
  <2> QED
    BY <1>0, <1>1, <2>1, KeyFacts DEF ProcessPast, Boot
<1>2. ASSUME NEW s \in Stages, WorkerStep(s)
      PROVE  JobsPast' /\ ProcessPast'
  BY <1>0, <1>1, <1>2, WorkerPast
<1>3. ASSUME NEW s \in Stages, NEW k \in Keys, RecoverStalled(s, k)
      PROVE  JobsPast' /\ ProcessPast'
  <2>1. job[s][k].state = "active" /\ UNCHANGED <<worker, completing, boot>>
    BY <1>3 DEF RecoverStalled
  <2>2. \E j : job' = [job EXCEPT ![s][k] = j]
    <3>1. CASE job[s][k].stalls < MaxStalls
      BY <1>3, <3>1 DEF RecoverStalled
    <3>2. CASE ~(job[s][k].stalls < MaxStalls)
      <4>1. job' = [job EXCEPT ![s][k] = [job[s][k] EXCEPT !.state = "failed"]]
        BY <1>3, <3>2 DEF RecoverStalled
      <4> QED
        BY <4>1
    <3> QED
      BY <3>1, <3>2
  <2> QED
    BY <1>0, <1>1, <2>1, <2>2, ExistingJobPast
<1>4. ASSUME NEW s \in Stages, NEW k \in Keys,
             FinalizeFail(s, k) \/ FinalizePark(s, k) \/ FinalizeFails(s, k)
      PROVE  JobsPast' /\ ProcessPast'
  <2>1. UNCHANGED <<job, worker, completing, boot>>
    BY <1>4 DEF FinalizeFail, FinalizePark, FinalizeFails, store
  <2> QED
    BY <1>0, <1>1, <2>1, SameJobsPast
<1>5. ASSUME NEW k \in Keys, CheckRegeneration(k) \/ Republish(k) \/ RepublishFails(k)
      PROVE  JobsPast' /\ ProcessPast'
  <2>1. /\ UNCHANGED job \/ (completing[k] # "none" /\ Enqueue("generation", k))
        /\ \A l \in Keys : completing'[l] # "none" => completing[l] # "none"
        /\ UNCHANGED <<worker, boot>>
    BY <1>0, <1>5 DEF CheckRegeneration, Republish, RepublishFails, store
  <2>2. completing[k] # "none" => k <= row'.key
    BY KeyFacts DEF ProcessPast
  <2> QED
    BY <1>0, <1>1, <2>1, <2>2, SameJobsPast, EnqueuePast
<1>6. ASSUME NEW s \in Stages, PublishFails(s)
      PROVE  JobsPast' /\ ProcessPast'
  <2>1. /\ UNCHANGED job \/ Enqueue(NextStage[s], worker[s].key)
        /\ s \in Publishers /\ Goto(s, "rollback") /\ UNCHANGED <<completing, boot>>
    BY <1>6 DEF PublishFails
  <2>2. \A r \in Stages : worker'[r].key = worker[r].key
    BY <1>0, <2>1 DEF Goto, Worker
  <2>3. JobsPast'
    BY <1>0, <2>1, SameJobsPast, EnqueuePast
  <2> QED
    BY <1>0, <1>1, <2>1, <2>2, <2>3
<1> QED
  BY <1>2, <1>3, <1>4, <1>5, <1>6, BootPast DEF ProcessStep, ListenerStep, FaultStep

(* An upload goes on to the next key, and nothing else writes the key.     *)
LEMMA RowStepKey ==
    ASSUME row \in Row, RowStep
    PROVE  KeyAges /\ (row'.key # row.key => ~row.live /\ row' = NewRow(row.key + 1))
<1>0. row.key \in Nat
  BY StoreAssumption DEF Row, Keys
<1>1. ASSUME NEW from, NEW to, Transition(row.key, from, to)
      PROVE  row'.key = row.key
  BY <1>1 DEF Transition, Holds, Row
<1>2. ASSUME NEW s, TransitionToFailed(row.key, ClaimTo[s]) \/ Fails(s)
      PROVE  row'.key = row.key
  BY <1>2 DEF TransitionToFailed, Fails, FailsIrrecoverably, Holds, Row
<1>3. StatusWrite \/ VerdictWrite => row'.key = row.key
  BY <1>1, <1>2 DEF StatusWrite, VerdictWrite, CompleteValidation, RejectGeneration,
                    CompleteGeneration, Row
<1>4. LifetimeWrite => \/ row'.key = row.key
                       \/ ~row.live /\ row' = NewRow(row.key + 1) /\ row'.key = row.key + 1
  BY DEF LifetimeWrite, NewRow, Row
<1> QED
  BY <1>0, <1>3, <1>4 DEF RowStep, KeyAges

(* No step of any kind gets ahead of the row.                              *)
LEMMA NextPast ==
    ASSUME CInv, CInv', JobsPast, ProcessPast, [Next]_vars
    PROVE  JobsPast' /\ ProcessPast'
<1>0. KeyAges
  BY NextRowStep, RowStepKey DEF CInv, TypeOK, StoreTypeOK
<1>1. ASSUME UploadsPast', UNCHANGED <<worker, completing, boot>> PROVE ProcessPast'
  BY <1>0, <1>1, KeyFacts DEF ProcessPast, CInv, TypeOK, Worker, Boot
<1>2. CASE ProcessStep
  BY <1>0, <1>2, ProcessStepPast
<1>3. CASE Expire \/ UNCHANGED vars
  BY <1>0, <1>1, <1>3, SameJobsPast, SameUploadsPast DEF Expire, process, vars, store
<1>4. CASE UploadStep
  <2>1. TypeOK /\ "text-extraction" \in Stages
    BY StageFacts DEF CInv
  <2>2. ASSUME NEW k \in Keys, upload[k].pc = "enqueue",
               job' = Enqueued(job, "text-extraction", k)
        PROVE  JobsPast'
    <3>1. k <= row'.key
      BY <1>0, <2>2, KeyFacts DEF ProcessPast, UploadsPast
    <3> QED
      BY <1>0, <2>1, <2>2, <3>1, EnqueuePast DEF Enqueue
  <2>3. JobsPast'
    BY <1>0, <1>4, <2>1, <2>2, UploadFacts, SameJobsPast
  <2> QED
    BY <1>0, <1>1, <1>4, <2>3, UploadLeaves, UploadStepPast
<1>5. CASE Crash
  <2>1. /\ UNCHANGED job
        /\ worker' = Idle /\ completing' = [k \in Keys |-> "none"] /\ boot' = Booted("down")
    BY <1>5 DEF Crash, store
  <2>2. \A s \in Stages : worker'[s].key = 1
    BY <2>1 DEF Idle, AtRest
  <2>3. boot'.key = 1 /\ boot'.todo = {}
    BY <2>1 DEF Booted
  <2>4. JobsPast'
    BY <1>0, <2>1, SameJobsPast
  <2>5. UploadsPast'
    <3>1. \A k \in Keys : upload'[k].pc = "none" /\ upload'[k].stored = upload[k].stored
      BY <1>5 DEF Crash, CInv, TypeOK, Upload
    <3> QED
      BY <1>0, <3>1, KeyFacts DEF ProcessPast, UploadsPast
  <2> QED
    BY <1>0, <2>1, <2>2, <2>3, <2>4, <2>5, KeyFacts DEF ProcessPast
<1> QED
  BY <1>2, <1>3, <1>4, <1>5 DEF Next

-------------------------------------------------------------------------------
(* Who moves an invoice that is in processing, and who will.               *)

(* The statuses of an invoice that has got to a stage.                     *)
Reached == [s \in Stages |->
    CASE s = "text-extraction" -> Status
      [] s = "data-extraction" -> Status \ InFlight("text-extraction")
      [] s = "validation" ->
             Status \ (InFlight("text-extraction") \cup InFlight("data-extraction"))
      [] s = "generation" -> Resting \cup InFlight("generation")]

(* Jobs are published for stages that the row has got to, and so is what   *)
(* others are about to publish.                                            *)
JobsReached == row.live =>
    /\ \A s \in Stages : job[s][row.key].state # "none" => row.status \in Reached[s]
    /\ completing[row.key] # "none" => row.status \in Reached["generation"]
    /\ boot.pc = "publish" /\ boot.key = row.key => row.status \in Reached[Booting]

(* What a worker decided from its copy of the row is still so, or it has   *)
(* moved the row itself, or the row failed meanwhile.  When a worker ends  *)
(* its job the row is out of its reach; only the row of a generation may   *)
(* be asked for again by then.                                             *)
ClaimsHold == row.live => \A s \in Stages : worker[s].key = row.key =>
    /\ worker[s].pc = "claim" => row.status \in {ClaimFrom[s], "FAILED"}
    /\ worker[s].pc = "work" => row.status \in {ClaimTo[s], "FAILED"}
    /\ worker[s].pc = "publish" => s \in Publishers /\ row.status \in Reached[NextStage[s]]
    /\ worker[s].pc \in {"park", "finish", "publish"} =>
           /\ row.status # ClaimTo[s]
           /\ s # "generation" => row.status # ClaimFrom[s]

NothingTakenBack == \A s \in Stages : worker[s].pc \notin {"rollback", "throw"}

(* A startup that has not come to the stage.                               *)
StillToCome(s) ==
    \/ boot.pc = "down"
    \/ boot.pc # "done" /\ \E i \in 1 .. 4 : BootOrder[i] = s /\ boot.at < i

(* One that will find its failed job, or its row.                          *)
WillFail(s, k) ==
    \/ StillToCome(s)
    \/ Booting = s /\ boot.pc = "next"
    \/ Booting = s /\ boot.pc \in {"failed", "park"} /\ k \in boot.todo

WillScan(s, k) ==
    \/ StillToCome(s)
    \/ Booting = s /\ boot.pc \in {"next", "failed", "park"}
    \/ Booting = s /\ boot.pc = "publish" /\ boot.key = k

(* Somebody who is about to publish a job of the stage.                    *)
WillPublish(s, k) ==
    \/ \E p \in Publishers : /\ NextStage[p] = s
                             /\ worker[p].key = k
                             /\ worker[p].pc = "publish"
    \/ s = "generation" /\ completing[k] = "publish"
    \/ s = "generation" /\ completing[k] = "check" /\ row.status = "GENERATING"
    \/ s = "text-extraction" /\ upload[k].pc = "enqueue"
    \/ WillScan(s, k)

(* The two ways to be stranded: with a failed job that nobody will look    *)
(* at, and with none; an invoice without its file waits for its user.      *)
InStage(s) == row.live /\ row.status \in InFlight(s)

GivenUp(s) ==
    /\ InStage(s)
    /\ job[s][row.key].state = "failed"
    /\ failing[s][row.key] # "fail"
    /\ ~WillFail(s, row.key)

Orphaned(s) ==
    /\ InStage(s) /\ ~AwaitsUpload
    /\ job[s][row.key].state = "none"
    /\ ~WillPublish(s, row.key)

-------------------------------------------------------------------------------
(* What the steps do, one variable at a time.                              *)

(* The stages follow each other, and an invoice that has got to one has    *)
(* got to it for good.                                                     *)
LEMMA StageOrder ==
    /\ \A s \in Stages : /\ ClaimFrom[s] # ClaimTo[s]
                         /\ ClaimFrom[s] \in Reached[s] /\ ClaimTo[s] \in Reached[s]
                         /\ ClaimFrom[s] \notin Resting /\ ClaimTo[s] \notin Resting
                         /\ Resting \subseteq Reached[s]
                         /\ InFlight(s) = {ClaimFrom[s], ClaimTo[s]}
    /\ \A s, r \in Stages : s # r => /\ ClaimFrom[s] # ClaimFrom[r] /\ ClaimTo[s] # ClaimTo[r]
                                     /\ ClaimFrom[s] # ClaimTo[r]
    /\ \A s, r \in Stages : ClaimFrom[r] \in Reached[s] <=> ClaimTo[r] \in Reached[s]
    /\ \A p \in Publishers, s \in Stages :
           ClaimTo[p] \in Reached[s] => ClaimFrom[NextStage[p]] \in Reached[s]
    /\ \A p \in Publishers : /\ p \in Stages /\ NextStage[p] \in Stages /\ p # "generation"
                             /\ ClaimTo[p] \notin Reached[NextStage[p]]
                             /\ NextStage[p] # p
    /\ "generation" \in Stages /\ "generation" \notin Publishers
    /\ ClaimFrom["generation"] = "GENERATING" /\ ClaimTo["generation"] = "GENERATING_DOCUMENT"
    /\ "FAILED" \in Resting /\ "NEEDS_REVIEW" \in Resting /\ "READY" \in Resting
<1>1. \A s \in Stages : InFlight(s) = {ClaimFrom[s], ClaimTo[s]}
  BY DEF InFlight
<1> QED
  BY <1>1 DEF Stages, Status, ClaimFrom, ClaimTo, NextStage, Publishers, Resting, Reached, InFlight

(* Without faults nothing fails but the work itself.                       *)
LEMMA NoFaultStep ==
    ASSUME TypeOK, MaxFaults = 0 PROVE ~FaultStep
<1>1. \A kind : ~Fault(kind)
  BY DEF Fault, TypeOK
<1> QED
  BY <1>1 DEF FaultStep, PublishFails, FinalizeFails, RepublishFails

(* A worker that moves the row on, and the failure of an exhausted stage.  *)
Advances(s) ==
    /\ worker[s].key = row.key /\ row.live
    /\ row'.key = row.key /\ row'.live
    /\ \/ /\ worker[s].pc = "claim" /\ worker'[s].pc = "work"
          /\ row.status = ClaimFrom[s] /\ row'.status = ClaimTo[s]
       \/ /\ worker[s].pc = "work" /\ worker'[s].pc = "publish" /\ s \in Publishers
          /\ row.status = ClaimTo[s] /\ row'.status = ClaimFrom[NextStage[s]]
       \/ /\ worker[s].pc = "work" /\ worker'[s].pc = "finish"
          /\ row.status = ClaimTo[s] /\ row'.status \in Resting
          /\ row'.status = "FAILED" => row'.failure = "content"
    /\ worker'[s].key = worker[s].key
    /\ \A r \in Stages \ {s} : worker'[r] = worker[r]
    /\ UNCHANGED <<job, failing, completing, boot>>

GivesUp(s) ==
    /\ row.live /\ row.status \in InFlight(s)
    /\ failing[s][row.key] = "fail" \/ boot.pc = "failed"
    /\ row'.key = row.key /\ row'.live /\ row'.status = "FAILED" /\ row'.failure = s
    /\ UNCHANGED <<job, worker, completing>>

(* One worker writes the row to move it on.                                *)
LEMMA WorkerMoves ==
    ASSUME TypeOK, NothingTakenBack, NEW s \in Stages, WorkerStep(s)
    PROVE  UNCHANGED row \/ Advances(s)
<1>0. row \in Row /\ worker \in [Stages -> Worker] /\ worker[s] \in Worker
  BY DEF TypeOK, StoreTypeOK
<1>1. ASSUME NEW pc, Goto(s, pc)
      PROVE  /\ worker'[s].pc = pc /\ worker'[s].key = worker[s].key
             /\ \A r \in Stages \ {s} : worker'[r] = worker[r]
  BY <1>0, <1>1 DEF Goto, Worker
<1>2. CASE Claim(s)
  BY <1>0, <1>1, <1>2 DEF Claim, At, Transition, Holds, Advances, Row
<1>3. CASE Extract(s)
  <2>1. s \in Publishers /\ "FAILED" \in Resting
    BY <1>3 DEF Extract, Publishers, Resting
  <2> QED
    BY <1>0, <1>1, <1>3, <2>1
       DEF Extract, At, Transition, TransitionToFailed, Holds, Advances, Row
<1>4. CASE s = "validation" /\ Validate
  <2>1. /\ s \in Publishers /\ "NEEDS_REVIEW" \in Resting /\ ClaimTo[s] = "VALIDATING"
        /\ ClaimFrom[NextStage[s]] = "GENERATING"
    BY <1>4 DEF Publishers, Resting, ClaimTo, ClaimFrom, NextStage, Stages
  <2> QED
    BY <1>0, <1>1, <1>4, <2>1 DEF Validate, At, CompleteValidation, Holds, Advances, Row
<1>5. CASE s = "generation" /\ Generate
  <2>1. /\ {"NEEDS_REVIEW", "READY"} \subseteq Resting /\ ClaimTo[s] = "GENERATING_DOCUMENT"
    BY <1>5 DEF Resting, ClaimTo, Stages
  <2>2. At(s, "work") /\ Goto(s, "finish") /\ UNCHANGED <<job, failing, completing, boot>>
    BY <1>5 DEF Generate
  <2>3. \/ UNCHANGED row
        \/ /\ Holds(worker[s].key, {"GENERATING_DOCUMENT"})
           /\ row'.key = row.key /\ row'.live = row.live
           /\ row'.status \in {"NEEDS_REVIEW", "READY"}
    BY <1>0, <1>5 DEF Generate, RejectGeneration, CompleteGeneration, Row, Holds
  <2> QED
    BY <1>0, <1>1, <2>1, <2>2, <2>3 DEF At, Holds, Advances
<1>6. CASE Rollback(s)
  BY <1>6 DEF Rollback, At, NothingTakenBack
<1> QED
  BY <1>2, <1>3, <1>4, <1>5, <1>6
     DEF WorkerStep, Take, TakeThrows, Publish, Finish, Throw

(* Whatever the step, this is what becomes of the row.                     *)
LEMMA NextMoves ==
    ASSUME TypeOK, MaxFaults = 0, NothingTakenBack, [Next]_vars
    PROVE  \/ UNCHANGED row
           \/ \E s \in Stages : Advances(s) \/ GivesUp(s)
           \/ ~row'.live
           \/ Renew
<1>0. row \in Row /\ ~FaultStep
  BY NoFaultStep DEF TypeOK, StoreTypeOK
<1>1. ASSUME NEW s \in Stages, NEW k, FailIrrecoverably(s, k),
             failing[s][k] = "fail" \/ boot.pc = "failed", UNCHANGED <<job, worker, completing>>
      PROVE  UNCHANGED row \/ GivesUp(s)
  BY <1>0, <1>1 DEF FailIrrecoverably, FailsIrrecoverably, Holds, GivesUp, Row
<1>2. Booting \in Stages
  BY PipelineAssumption DEF TypeOK, Boot, Booting
<1>3. CASE ListenerStep
  BY <1>1, <1>3 DEF ListenerStep, FinalizeFail, FinalizePark, CheckRegeneration, Republish, store,
                    FailIrrecoverablyLost
<1>4. CASE BootStep
  BY <1>1, <1>2, <1>4 DEF BootStep, Restart, BootFailedJobs, BootFail, BootPark, BootScan,
                          BootPublish, store, FailIrrecoverablyLost
<1>5. CASE Expire
  BY <1>0, <1>5 DEF Expire, Row
<1>6. CASE (\E s \in Stages, k \in Keys : RecoverStalled(s, k)) \/ Crash \/ UNCHANGED vars
  BY <1>6 DEF RecoverStalled, Crash, vars, store
<1> QED
  BY <1>0, <1>3, <1>4, <1>5, <1>6, WorkerMoves, UploadLeaves DEF Next, ProcessStep

(* Who publishes a job of the stage now.                                   *)
Publishes(s, k) ==
    \/ \E p \in Publishers : /\ NextStage[p] = s
                             /\ worker[p].key = k
                             /\ worker[p].pc = "publish" /\ worker'[p].pc = "finish"
    \/ s = "generation" /\ completing[k] = "publish"
    \/ s = "text-extraction" /\ upload[k].pc = "enqueue" /\ upload'[k].pc = "none"
    \/ Booting = s /\ boot.pc = "publish" /\ boot.key = k

(* What becomes of a job: it stays, appears, is worked on, fails before a  *)
(* listener, or is finished.                                               *)
JobStep(s, k) ==
    \/ job'[s][k] = job[s][k]
    \/ /\ job[s][k].state = "none" /\ job'[s][k].state = "waiting"
       /\ Publishes(s, k) /\ UNCHANGED row
    \/ job[s][k].state \in {"waiting", "active"} /\ job'[s][k].state \in {"waiting", "active"}
    \/ /\ job[s][k].state \in {"waiting", "active"} /\ job'[s][k].state = "failed"
       /\ failing'[s][k] = "fail"
    \/ /\ worker[s].pc = "finish" /\ worker[s].key = k
       /\ job'[s][k].state = "none" /\ UNCHANGED row
       /\ s = "generation" => completing'[k] = "check"

(* An enqueue publishes at most one job, and after it there is one.        *)
LEMMA EnqueueStep ==
    ASSUME CInv, NEW s \in Stages, NEW k \in Keys, Enqueue(s, k)
    PROVE  /\ job'[s][k].state # "none"
           /\ \A r \in Stages, l \in Keys :
                  \/ job'[r][l] = job[r][l]
                  \/ /\ r = s /\ l = k
                     /\ job[r][l].state = "none" /\ job'[r][l].state = "waiting"
<1>1. job \in JobTable
  BY DEF CInv, TypeOK, StoreTypeOK, JobTable
<1>2. FreshJob.state = "waiting"
  BY DEF FreshJob
<1> QED
  BY <1>1, <1>2 DEF Enqueue, Enqueued, JobTable

(* An attempt that failed.                                                 *)
LEMMA TryAgainStep ==
    ASSUME CInv, NEW s \in Stages, NEW k \in Keys, TryAgain(s, k),
           job[s][k].state \in {"waiting", "active"}
    PROVE  \A r \in Stages, l \in Keys : JobStep(r, l)
<1>1. /\ \A r \in Stages, l \in Keys : r # s \/ l # k => job'[r][l] = job[r][l]
      /\ job'[s][k].state \in {"waiting", "failed"}
  BY TryAgainFacts
<1>2. job'[s][k].state = "failed" => failing'[s][k] = "fail"
  <2> DEFINE made == job[s][k].made + 1
             state == IF made < Attempts THEN "waiting" ELSE "failed"
  <2>1. job'[s][k].state = state
    BY DEF TryAgain, CInv, TypeOK, StoreTypeOK, Job
  <2>2. failing' = IF state = "failed" THEN [failing EXCEPT ![s][k] = "fail"] ELSE failing
    BY DEF TryAgain
  <2> HIDE DEF state
  <2> QED
    BY <2>1, <2>2 DEF CInv, TypeOK
<1> QED
  BY <1>1, <1>2 DEF JobStep

(* The jobs under the steps of a worker.                                   *)
LEMMA WorkerJobs ==
    ASSUME CInv, NEW t \in Stages, WorkerStep(t)
    PROVE  \A s \in Stages, k \in Keys : JobStep(s, k)
<1>0. /\ worker[t].key \in Keys /\ job \in JobTable
            /\ completing \in [Keys -> {"none", "check", "publish"}]
      /\ worker[t].pc # "idle" => job[t][worker[t].key].state = "active"
  BY DEF CInv, WorkersAgree, TypeOK, StoreTypeOK, JobTable, Worker
<1>1. ASSUME NEW k \in Keys, Take(t, k)
      PROVE  \A s \in Stages, l \in Keys : JobStep(s, l)
  <2>1. job' = [job EXCEPT ![t][k] = [job[t][k] EXCEPT !.state = "active"]]
        /\ job[t][k].state = "waiting"
    BY <1>1 DEF Take
  <2>2. job'[t][k].state = "active"
        /\ \A s \in Stages, l \in Keys : s # t \/ l # k => job'[s][l] = job[s][l]
    BY <1>0, <2>1 DEF JobTable, Job
  <2> QED
    BY <2>1, <2>2 DEF JobStep
<1>2. CASE Throw(t) \/ \E k \in Keys : TakeThrows(t, k)
  BY <1>0, <1>2, TryAgainStep DEF Throw, TakeThrows, At
<1>3. CASE Finish(t)
  <2> DEFINE k == worker[t].key
  <2>1. /\ job' = [job EXCEPT ![t][k] = NoJob] /\ At(t, "finish") /\ UNCHANGED row
        /\ t = "generation" => completing' = [completing EXCEPT ![k] = "check"]
    BY <1>3 DEF Finish
  <2>2. /\ job'[t][k].state = "none"
        /\ \A s \in Stages, l \in Keys : s # t \/ l # k => job'[s][l] = job[s][l]
    BY <1>0, <2>1 DEF JobTable, NoJob
  <2>3. t = "generation" => completing'[k] = "check"
    BY <1>0, <2>1
  <2> QED
    BY <2>1, <2>2, <2>3 DEF JobStep, At
<1>4. CASE Publish(t)
  <2>1. /\ t \in Publishers /\ NextStage[t] \in Stages /\ worker[t].pc = "publish"
        /\ Enqueue(NextStage[t], worker[t].key) /\ UNCHANGED row /\ Goto(t, "finish")
    BY <1>4, StageOrder DEF Publish, At
  <2>3. worker'[t].pc = "finish"
    BY <2>1 DEF Goto, CInv, TypeOK, Worker
  <2>2. Publishes(NextStage[t], worker[t].key)
    BY <2>1, <2>3 DEF Publishes
  <2> QED
    BY <1>0, <2>1, <2>2, EnqueueStep DEF JobStep
<1>5. CASE UNCHANGED job
  BY <1>5 DEF JobStep
<1> QED
  BY <1>1, <1>2, <1>3, <1>4, <1>5
     DEF WorkerStep, Claim, Extract, Validate, Generate, Rollback

(* The jobs under any step without faults.                                 *)
LEMMA NextJobs ==
    ASSUME CInv, MaxFaults = 0, [Next]_vars
    PROVE  \A s \in Stages, k \in Keys : JobStep(s, k)
<1>0. TypeOK /\ ~FaultStep /\ job \in JobTable
  BY NoFaultStep DEF CInv, TypeOK, StoreTypeOK, JobTable
<1>1. ASSUME UNCHANGED job PROVE \A s \in Stages, k \in Keys : JobStep(s, k)
  BY <1>1 DEF JobStep
<1>2. ASSUME NEW t \in Stages, NEW l \in Keys, RecoverStalled(t, l)
      PROVE  \A s \in Stages, k \in Keys : JobStep(s, k)
  <2>1. job[t][l].state = "active"
    BY <1>2 DEF RecoverStalled
  <2>2. CASE job[t][l].stalls < MaxStalls
    <3>1. job' = [job EXCEPT ![t][l] = Requeued(job[t][l])]
      BY <1>2, <2>2 DEF RecoverStalled
    <3>2. Requeued(job[t][l]).state = "waiting"
      BY <1>0 DEF Requeued, JobTable, Job
    <3> HIDE DEF Requeued
    <3> QED
      BY <1>0, <2>1, <3>1, <3>2 DEF JobStep, JobTable
  <2>3. CASE ~(job[t][l].stalls < MaxStalls)
    <3>1. /\ job' = [job EXCEPT ![t][l].state = "failed"]
          /\ failing' = [failing EXCEPT ![t][l] = "fail"]
      BY <1>2, <2>3 DEF RecoverStalled
    <3>2. job'[t][l].state = "failed" /\ failing'[t][l] = "fail"
      BY <1>0, <3>1 DEF JobTable, Job, TypeOK
    <3> QED
      BY <1>0, <2>1, <3>1, <3>2 DEF JobStep, JobTable
  <2> QED
    BY <2>2, <2>3
<1>3. CASE ListenerStep
  <2>1. ASSUME NEW k \in Keys, Republish(k)
        PROVE  \A s \in Stages, l \in Keys : JobStep(s, l)
    BY <2>1, StageOrder, EnqueueStep DEF Republish, JobStep, Publishes
  <2> QED
    BY <1>1, <1>3, <2>1 DEF ListenerStep, FinalizeFail, FinalizePark, CheckRegeneration, store
<1>4. CASE BootStep
  <2>1. Booting \in Stages /\ boot.key \in Keys
    BY <1>0, PipelineAssumption DEF TypeOK, Boot, Booting
  <2>2. CASE BootPublish
    BY <2>1, <2>2, EnqueueStep DEF BootPublish, JobStep, Publishes
  <2> QED
    BY <1>1, <1>4, <2>2 DEF BootStep, Restart, BootFailedJobs, BootFail, BootPark, BootScan, store
<1>5. CASE Crash \/ Expire \/ UNCHANGED vars
  BY <1>1, <1>5 DEF Crash, Expire, vars, store
<1>6. CASE UploadStep
  <2>1. ASSUME NEW l \in Keys, EnqueueUpload(l)
        PROVE  \A s \in Stages, k \in Keys : JobStep(s, k)
    <3>1. "text-extraction" \in Stages /\ Enqueue("text-extraction", l)
          /\ upload[l].pc = "enqueue" /\ upload'[l].pc = "none" /\ UNCHANGED row
      BY <1>0, <2>1, StageFacts DEF EnqueueUpload, TypeOK, Upload
    <3> QED
      BY <3>1, EnqueueStep DEF JobStep, Publishes
  <2>2. \A l \in Keys : ~EnqueueUploadFails(l)
    BY <1>0 DEF EnqueueUploadFails, Fault, TypeOK
  <2> QED
    BY <1>1, <1>6, <2>1, <2>2 DEF UploadStep, Renew, RepeatUpload, SaveFile, store
<1> QED
  BY <1>0, <1>2, <1>3, <1>4, <1>5, <1>6, WorkerJobs DEF Next, ProcessStep

(* A listener that was to fail the invoice has done so, unless the process *)
(* died.                                                                   *)
LEMMA NextFailing ==
    ASSUME TypeOK, MaxFaults = 0, [Next]_vars, NEW s \in Stages, NEW k \in Keys,
           failing[s][k] = "fail", failing'[s][k] # "fail", boot'.pc # "down"
    PROVE  ~(row'.live /\ row'.key = k /\ row'.status \in InFlight(s))
<1>0. ~FaultStep /\ failing \in [Stages -> [Keys -> {"none", "fail", "park"}]]
  BY NoFaultStep DEF TypeOK
<1>1. ASSUME UNCHANGED failing PROVE FALSE
  BY <1>1
<1>2. ASSUME NEW r \in Stages, NEW l \in Keys, failing' = [failing EXCEPT ![r][l] = "fail"]
      PROVE  FALSE
  BY <1>0, <1>2
<1>3. ASSUME NEW r \in Stages, WorkerStep(r) PROVE FALSE
  <2>1. ASSUME NEW l \in Keys, TryAgain(r, l) PROVE FALSE
    BY <1>1, <1>2, <2>1 DEF TryAgain
  <2>2. worker[r].key \in Keys
    BY DEF TypeOK, Worker
  <2> QED
    BY <1>1, <1>3, <2>1, <2>2
       DEF WorkerStep, Take, TakeThrows, Claim, Extract, Validate, Generate, Publish,
           Rollback, Finish, Throw
<1>4. ASSUME NEW r \in Stages, NEW l \in Keys, RecoverStalled(r, l) PROVE FALSE
  BY <1>1, <1>2, <1>4 DEF RecoverStalled
<1>5. CASE ListenerStep
  <2>1. PICK r \in Stages, l \in Keys : FinalizeFail(r, l) \/ FinalizePark(r, l)
    BY <1>1, <1>5 DEF ListenerStep, CheckRegeneration, Republish
  <2>2. r = s /\ l = k /\ FinalizeFail(s, k)
    BY <1>0, <2>1 DEF FinalizeFail, FinalizePark
  <2>3. row \in Row /\ "FAILED" \notin InFlight(s)
    BY StageOrder DEF TypeOK, StoreTypeOK, InFlight
  <2> QED
    BY <2>2, <2>3 DEF FinalizeFail, FailIrrecoverably, FailIrrecoverablyLost,
                      FailsIrrecoverably, AlreadyExhausted, Holds, Row
<1>6. ASSUME BootStep PROVE FALSE
  BY <1>1, <1>6 DEF BootStep, Restart, BootFailedJobs, BootFail, BootPark, BootScan, BootPublish
<1>7. ASSUME Crash PROVE FALSE
  BY <1>7 DEF Crash, Booted
<1>8. ASSUME Expire \/ UploadStep \/ UNCHANGED vars PROVE FALSE
  BY <1>1, <1>8, UploadLeaves DEF Expire, process, vars
<1> QED
  BY <1>0, <1>3, <1>4, <1>5, <1>6, <1>7, <1>8 DEF Next, ProcessStep

(* A completed listener that was to publish has done so; one that was to   *)
(* check finds an invoice that waits for its generation.                   *)
LEMMA NextCompleting ==
    ASSUME CInv, MaxFaults = 0, [Next]_vars, NEW k \in Keys
    PROVE  /\ completing'[k] # "none" =>
                  completing[k] # "none" \/ job["generation"][k].state # "none"
           /\ completing'[k] # "none" /\ completing[k] = "none" =>
                  /\ worker["generation"].pc = "finish" /\ worker["generation"].key = k
                  /\ UNCHANGED row
           /\ job["generation"][k].state = "none" /\ completing[k] = "publish"
                  /\ boot'.pc # "down" =>
                  completing'[k] = "publish" \/ job'["generation"][k].state # "none"
           /\ job["generation"][k].state = "none" /\ completing[k] = "check"
                  /\ Holds(k, {"GENERATING"}) /\ boot'.pc # "down" =>
                  completing'[k] \in {"check", "publish"}
<1>0. /\ ~FaultStep /\ completing \in [Keys -> {"none", "check", "publish"}]
      /\ "generation" \in Stages
      /\ \A r \in Stages : worker[r].pc # "idle" => job[r][worker[r].key].state = "active"
  BY NoFaultStep, StageOrder DEF CInv, TypeOK, WorkersAgree
<1>1. CASE UNCHANGED completing
  BY <1>1
<1>2. ASSUME NEW r \in Stages, WorkerStep(r), completing' # completing
      PROVE  /\ r = "generation" /\ worker[r].pc = "finish" /\ UNCHANGED row
             /\ completing' = [completing EXCEPT ![worker[r].key] = "check"]
  BY <1>2 DEF WorkerStep, Take, TakeThrows, Claim, Extract, Validate, Generate, Publish,
              Rollback, Finish, Throw, At
<1>3. CASE \E r \in Stages : WorkerStep(r)
  BY <1>0, <1>1, <1>2, <1>3
<1>4. CASE ListenerStep
  <2>1. CASE \E l \in Keys : CheckRegeneration(l)
    BY <1>0, <2>1 DEF CheckRegeneration
  <2>2. CASE \E l \in Keys : Republish(l)
    BY <1>0, <2>2, EnqueueStep DEF Republish
  <2> QED
    BY <1>1, <1>4, <2>1, <2>2 DEF ListenerStep, FinalizeFail, FinalizePark
<1>5. CASE BootStep \/ \E s \in Stages, l \in Keys : RecoverStalled(s, l)
  BY <1>1, <1>5 DEF BootStep, Restart, BootFailedJobs, BootFail, BootPark, BootScan,
                    BootPublish, RecoverStalled
<1>6. CASE Crash
  BY <1>6 DEF Crash, Booted
<1>7. CASE Expire \/ UploadStep \/ UNCHANGED vars
  BY <1>1, <1>7, UploadLeaves DEF Expire, process, vars
<1> QED
  BY <1>0, <1>3, <1>4, <1>5, <1>6, <1>7 DEF Next, ProcessStep

(* A startup that goes on to the next stage leaves out none.               *)
LEMMA ReconciledStep ==
    ASSUME TypeOK, boot' = Reconciled, NEW s \in Stages, StillToCome(s), boot.pc # "down"
    PROVE  StillToCome(s)' \/ (Booting' = s /\ boot'.pc = "next")
<1>1. boot.at \in 1 .. 4
  BY DEF TypeOK, Boot
<1>2. PICK i \in 1 .. 4 : BootOrder[i] = s /\ boot.at < i
  BY DEF StillToCome
<1>3. boot.at # 4 /\ boot' = [Booted("next") EXCEPT !.at = boot.at + 1]
  BY <1>1, <1>2 DEF Reconciled
<1>4. boot'.pc = "next" /\ boot'.at = boot.at + 1
  BY <1>3 DEF Booted
<1>5. CASE i = boot.at + 1
  BY <1>2, <1>4, <1>5 DEF Booting
<1>6. CASE i # boot.at + 1
  BY <1>1, <1>2, <1>4, <1>6 DEF StillToCome
<1> QED
  BY <1>5, <1>6

(* A new startup leaves out none either.                                   *)
LEMMA RestartStep ==
    ASSUME Restart, NEW s \in Stages
    PROVE  StillToCome(s)' \/ (Booting' = s /\ boot'.pc = "next")
<1>1. boot'.pc = "next" /\ boot'.at = 1
  BY DEF Restart, Booted
<1>2. PICK i \in 1 .. 4 : BootOrder[i] = s
  BY PipelineAssumption
<1>3. CASE i = 1
  BY <1>1, <1>2, <1>3 DEF Booting
<1>4. CASE i # 1
  BY <1>1, <1>2, <1>4 DEF StillToCome
<1> QED
  BY <1>3, <1>4

(* The steps in which the startup moves.                                   *)
LEMMA NextBootMoves ==
    ASSUME TypeOK, MaxFaults = 0, [Next]_vars
    PROVE  UNCHANGED boot \/ boot'.pc = "down" \/ BootStep
<1>0. ~FaultStep
  BY NoFaultStep
<1>1. \A s \in Stages : WorkerStep(s) => UNCHANGED boot
  BY DEF WorkerStep, Take, TakeThrows, Claim, Extract, Validate, Generate, Publish,
         Rollback, Finish, Throw
<1>2. ListenerStep => UNCHANGED boot
  BY DEF ListenerStep, FinalizeFail, FinalizePark, CheckRegeneration, Republish
<1>3. Crash => boot'.pc = "down"
  BY DEF Crash, Booted
<1> QED
  BY <1>0, <1>1, <1>2, <1>3, UploadLeaves
     DEF Next, ProcessStep, RecoverStalled, Expire, process, vars

(* A startup that had the failed job before it has failed the invoice.     *)
LEMMA NextWillFail ==
    ASSUME TypeOK, MaxFaults = 0, [Next]_vars, NEW s \in Stages, NEW k \in Keys,
           job[s][k].state = "failed", WillFail(s, k), ~WillFail(s, k)'
    PROVE  ~(row'.live /\ row'.key = k /\ row'.status \in InFlight(s))
<1>0. boot \in Boot /\ boot.todo \subseteq Keys /\ boot.at \in 1 .. 4
  BY DEF TypeOK, Boot
<1>1. ~UNCHANGED boot /\ boot'.pc # "down"
  BY DEF WillFail, StillToCome, Booting
<1>2. BootStep
  BY <1>1, NextBootMoves
<1>3. ASSUME UNCHANGED boot.at, boot'.pc \notin {"down", "done"}
      PROVE  Booting' = Booting /\ (StillToCome(s) /\ boot.pc # "down" => StillToCome(s)')
  BY <1>3 DEF StillToCome, Booting
<1>4. ~Restart
  BY RestartStep DEF WillFail
<1>5. ASSUME BootFailedJobs PROVE FALSE
  <2>1. /\ boot.pc = "next" /\ boot'.pc = "failed" /\ boot'.at = boot.at
        /\ boot'.todo = {l \in Keys : job[Booting][l].state = "failed"}
    BY <1>0, <1>5 DEF BootFailedJobs, Boot
  <2>2. Booting' = Booting /\ (StillToCome(s) => StillToCome(s)')
    BY <1>3, <2>1
  <2>3. Booting = s
    BY <2>1, <2>2 DEF WillFail
  <2>4. k \in boot'.todo
    BY <2>1, <2>3
  <2> QED
    BY <2>1, <2>2, <2>3, <2>4 DEF WillFail
<1>6. ~BootPark
  BY <1>0, <1>3 DEF BootPark, WillFail, Boot
<1>7. ASSUME BootScan PROVE FALSE
  <2>1. boot.pc = "failed" /\ boot.todo = {}
    BY <1>7 DEF BootScan
  <2>2. StillToCome(s)
    BY <2>1 DEF WillFail
  <2>3. CASE boot' = Reconciled
    BY <2>1, <2>2, <2>3, ReconciledStep DEF WillFail
  <2>4. CASE boot' = [boot EXCEPT !.pc = "publish", !.key = row.key]
    BY <1>0, <1>3, <2>1, <2>2, <2>4 DEF WillFail, Boot
  <2> QED
    BY <1>7, <2>3, <2>4 DEF BootScan
<1>8. ASSUME BootPublish PROVE FALSE
  <2>1. boot.pc = "publish" /\ boot' = Reconciled
    BY <1>8 DEF BootPublish
  <2>2. StillToCome(s)
    BY <2>1 DEF WillFail
  <2> QED
    BY <2>1, <2>2, ReconciledStep DEF WillFail
<1>9. PICK l \in Keys : BootFail(l)
  BY <1>2, <1>4, <1>5, <1>6, <1>7, <1>8 DEF BootStep
<1>10. l = k /\ Booting = s
  BY <1>0, <1>3, <1>9 DEF BootFail, WillFail, Boot
<1>11. row \in Row /\ "FAILED" \notin InFlight(s)
  BY StageOrder DEF TypeOK, StoreTypeOK, InFlight
<1> QED
  BY <1>9, <1>10, <1>11 DEF BootFail, FailIrrecoverably, FailIrrecoverablyLost,
                            FailsIrrecoverably, AlreadyExhausted, Holds, Row

(* One that had the row before it has published its job, or the row has    *)
(* left the stage.                                                         *)
LEMMA NextWillScan ==
    ASSUME CInv, MaxFaults = 0, [Next]_vars, NEW s \in Stages, row'.key = row.key,
           WillScan(s, row.key), ~WillScan(s, row.key)'
    PROVE  ~InStage(s) \/ AwaitsUpload \/ job'[s][row.key].state # "none"
<1>0. /\ boot \in Boot /\ boot.at \in 1 .. 4 /\ boot.key \in Keys /\ TypeOK /\ row.key \in Keys
      /\ Booting \in Stages
  BY PipelineAssumption DEF CInv, TypeOK, StoreTypeOK, Row, Boot, Booting
<1>1. ~UNCHANGED boot /\ boot'.pc # "down"
  BY DEF WillScan, StillToCome, Booting
<1>2. BootStep
  BY <1>0, <1>1, NextBootMoves
<1>3. ASSUME UNCHANGED boot.at, boot'.pc \notin {"down", "done"}
      PROVE  Booting' = Booting /\ (StillToCome(s) /\ boot.pc # "down" => StillToCome(s)')
  BY <1>3 DEF StillToCome, Booting
<1>4. ~Restart
  BY RestartStep DEF WillScan
<1>5. ~BootFailedJobs /\ ~BootPark /\ \A k \in Keys : ~BootFail(k)
  <2>1. ASSUME \/ boot' = [boot EXCEPT !.pc = "failed", !.key = 1]
               \/ \E todo : boot' = [boot EXCEPT !.todo = todo]
               \/ \E todo : boot' = [boot EXCEPT !.pc = "failed", !.todo = todo]
               \/ \E k, todo : boot' = [boot EXCEPT !.pc = "park", !.key = k, !.todo = todo],
               boot.pc \in {"next", "failed", "park"}
        PROVE  FALSE
    <3>1. UNCHANGED boot.at /\ boot'.pc \in {"next", "failed", "park"}
      BY <1>0, <2>1 DEF Boot
    <3> QED
      BY <1>3, <2>1, <3>1 DEF WillScan
  <2> QED
    BY <2>1 DEF BootFailedJobs, BootPark, BootFail
<1>6. CASE BootScan
  <2>1. boot.pc = "failed" /\ UNCHANGED job
    BY <1>6 DEF BootScan, store
  <2>2. CASE boot' = Reconciled
             /\ ~(row.live /\ row.status \in InFlight(Booting) /\ ~AwaitsUpload)
    BY <1>0, <2>1, <2>2, ReconciledStep DEF WillScan, InStage
  <2>3. CASE boot' = [boot EXCEPT !.pc = "publish", !.key = row.key]
    <3>1. UNCHANGED boot.at /\ boot'.pc = "publish" /\ boot'.key = row.key
      BY <1>0, <2>3 DEF Boot
    <3> QED
      BY <1>3, <2>1, <3>1 DEF WillScan
  <2> QED
    BY <1>6, <2>2, <2>3 DEF BootScan
<1>7. CASE BootPublish
  <2>1. boot.pc = "publish" /\ boot' = Reconciled /\ Enqueue(Booting, boot.key)
    BY <1>7 DEF BootPublish
  <2>2. job'[Booting][boot.key].state # "none"
    BY <1>0, <2>1, EnqueueStep
  <2> QED
    BY <1>0, <2>1, <2>2, ReconciledStep DEF WillScan
<1> QED
  BY <1>2, <1>4, <1>5, <1>6, <1>7 DEF BootStep

(* The startup publishes for the row that it has just seen.                *)
LEMMA NextBootPublish ==
    ASSUME TypeOK, MaxFaults = 0, [Next]_vars, boot'.pc = "publish"
    PROVE  /\ UNCHANGED row \/ UNCHANGED boot
           /\ \/ boot.pc = "publish" /\ UNCHANGED boot
              \/ /\ boot'.key = row.key /\ Booting' = Booting
                 /\ row.status \in InFlight(Booting)
<1>0. boot \in Boot
  BY DEF TypeOK
<1>1. CASE UNCHANGED boot
  BY <1>1
<1>2. \A pc : Booted(pc).pc = pc
  BY DEF Booted
<1>3. Reconciled.pc \in {"done", "next"}
  BY DEF Reconciled, Booted
<1>4. CASE BootStep
  <2>1. ~Restart /\ ~BootFailedJobs /\ ~BootPark /\ ~BootPublish
    BY <1>0, <1>2, <1>3 DEF Restart, BootFailedJobs, BootPark, BootPublish, Boot
  <2>2. ASSUME NEW k \in Keys, BootFail(k) PROVE FALSE
    BY <1>0, <2>2 DEF BootFail, Boot
  <2>3. BootScan
    BY <1>4, <2>1, <2>2 DEF BootStep
  <2> QED
    BY <1>0, <1>3, <2>3 DEF BootScan, Boot, Booting, store
<1> QED
  BY <1>1, <1>4, NextBootMoves

(* A request that is about to publish does so unless the process dies, and *)
(* one that stores its file goes on to publish.                            *)
LEMMA NextUpload ==
    ASSUME CInv, MaxFaults = 0, [Next]_vars, ~Renew, NEW k \in Keys
    PROVE  /\ upload[k].pc = "enqueue" /\ upload'[k].pc # "enqueue" =>
                  job'["text-extraction"][k].state # "none" \/ boot'.pc = "down"
           /\ upload'[k].stored => upload[k].stored \/ upload'[k].pc = "enqueue"
<1>0. /\ TypeOK /\ upload \in [Keys -> Upload] /\ "text-extraction" \in Stages
      /\ \A kind : ~Fault(kind)
  BY DEF CInv, TypeOK, Fault, Stages
<1>1. CASE upload'[k] = upload[k]
  BY <1>1
<1>2. CASE Crash
  BY <1>0, <1>2 DEF Crash, Booted, Upload
<1>3. CASE RepeatUpload
  BY <1>0, <1>3 DEF RepeatUpload, Upload
<1>4. ASSUME NEW l \in Keys, l = k, SaveFile(l) \/ EnqueueUpload(l) \/ EnqueueUploadFails(l)
      PROVE  /\ upload[k].pc = "enqueue" /\ upload'[k].pc # "enqueue" =>
                    job'["text-extraction"][k].state # "none"
             /\ upload'[k].stored => upload[k].stored \/ upload'[k].pc = "enqueue"
  <2>1. ~EnqueueUploadFails(l)
    BY <1>0 DEF EnqueueUploadFails
  <2>2. CASE SaveFile(l)
    BY <1>0, <1>4, <2>2 DEF SaveFile, Upload
  <2>3. CASE EnqueueUpload(l)
    BY <1>0, <1>4, <2>3, EnqueueStep DEF EnqueueUpload, Upload
  <2> QED
    BY <1>4, <2>1, <2>2, <2>3
<1>5. ASSUME NEW l \in Keys, l # k, SaveFile(l) \/ EnqueueUpload(l) \/ EnqueueUploadFails(l)
      PROVE  upload'[k] = upload[k]
  BY <1>0, <1>5 DEF SaveFile, EnqueueUpload, EnqueueUploadFails
<1>6. CASE ProcessStep \/ Expire \/ UNCHANGED vars
  BY <1>1, <1>6, ProcessLeavesUploads DEF Expire, process, vars
<1> QED
  BY <1>1, <1>2, <1>3, <1>4, <1>5, <1>6 DEF Next, UploadStep

(* What a worker does about the row, other than moving it on.              *)
WorkerStays(s) ==
    \/ worker'[s] = worker[s]
    \/ worker'[s].pc = "idle" /\ (worker[s].pc # "publish" \/ boot'.pc = "down")
    \/ worker[s].pc = "idle" /\ worker'[s].pc = Accept(s, worker'[s].key) /\ UNCHANGED row
    \/ /\ worker'[s].key = worker[s].key /\ worker'[s].pc = "finish" /\ UNCHANGED row
       /\ \/ worker[s].pc = "claim" /\ ~Holds(worker[s].key, {ClaimFrom[s]})
          \/ worker[s].pc = "work" /\ ~Holds(worker[s].key, {ClaimTo[s]})
          \/ /\ worker[s].pc = "publish" /\ s \in Publishers
             /\ job'[NextStage[s]][worker[s].key].state # "none"

(* A worker moves the row on, goes on with what it has, or ends its job.   *)
LEMMA NextWorker ==
    ASSUME CInv, MaxFaults = 0, NothingTakenBack, [Next]_vars, NEW s \in Stages
    PROVE  Advances(s) \/ WorkerStays(s)
<1>0. /\ worker \in [Stages -> Worker] /\ worker[s] \in Worker /\ TypeOK /\ ~FaultStep
      /\ worker[s].key \in Keys
  BY NoFaultStep DEF CInv, TypeOK, Worker
<1>1. CASE worker'[s] = worker[s]
  BY <1>1 DEF WorkerStays
<1>2. ASSUME NEW pc, Goto(s, pc)
      PROVE  worker'[s].pc = pc /\ worker'[s].key = worker[s].key
  BY <1>0, <1>2 DEF Goto, Worker
<1>3. CASE WorkerStep(s)
  <2>1. ASSUME NEW k \in Keys, Take(s, k) PROVE WorkerStays(s)
    <3>1. /\ worker[s].pc = "idle"
          /\ worker'[s].pc = Accept(s, k) /\ worker'[s].key = k /\ UNCHANGED row
      BY <1>0, <2>1 DEF Take, At
    <3> QED
      BY <3>1 DEF WorkerStays
  <2>2. CASE Finish(s) \/ Throw(s)
    <3>1. worker[s].pc # "publish" /\ Rest(s)
      BY <2>2 DEF Finish, Throw, At
    <3> QED
      BY <1>0, <3>1 DEF Rest, AtRest, WorkerStays
  <2>3. CASE Publish(s)
    <3>1. /\ s \in Publishers /\ NextStage[s] \in Stages /\ worker[s].pc = "publish"
          /\ Enqueue(NextStage[s], worker[s].key) /\ Goto(s, "finish") /\ UNCHANGED row
      BY <2>3, StageOrder DEF Publish, At
    <3> QED
      BY <1>0, <1>2, <3>1, EnqueueStep DEF WorkerStays
  <2>4. CASE Claim(s)
    <3>1. CASE ~Holds(worker[s].key, {ClaimFrom[s]}) /\ UNCHANGED row /\ Goto(s, "finish")
      BY <1>2, <2>4, <3>1 DEF Claim, At, WorkerStays
    <3>2. CASE Transition(worker[s].key, ClaimFrom[s], ClaimTo[s])
      <4>1. row'.status = ClaimTo[s] /\ row.status = ClaimFrom[s]
        BY <1>0, <3>2 DEF Transition, Holds, TypeOK, StoreTypeOK, Row
      <4> QED
        BY <1>0, <1>3, <4>1, WorkerMoves, StageOrder
    <3> QED
      BY <2>4, <3>1, <3>2 DEF Claim
  <2>5. CASE Extract(s) \/ (s = "validation" /\ Validate) \/ (s = "generation" /\ Generate)
    <3>1. CASE UNCHANGED row
      <4>1. row \in Row /\ "FAILED" # ClaimTo[s] /\ "NEEDS_REVIEW" # ClaimTo[s]
            /\ "READY" # ClaimTo[s]
            /\ (s \in Publishers => NextStage[s] \in Stages /\ ClaimFrom[NextStage[s]] # ClaimTo[s])
            /\ (s = "validation" => ClaimTo[s] = "VALIDATING")
            /\ ClaimTo["generation"] = "GENERATING_DOCUMENT"
        BY StageOrder DEF CInv, TypeOK, StoreTypeOK, ClaimTo, Stages
      <4>2. /\ worker[s].pc = "work" /\ ~Holds(worker[s].key, {ClaimTo[s]})
            /\ Goto(s, "finish")
        <5>1. CASE Extract(s)
          <6>1. s \in Publishers
            BY <5>1 DEF Extract, Publishers
          <6> QED
            BY <3>1, <4>1, <5>1, <6>1 DEF Extract, At, Transition, TransitionToFailed, Holds, Row
        <5>2. CASE s = "validation" /\ Validate
          BY <3>1, <4>1, <5>2 DEF Validate, At, CompleteValidation, Holds, Row
        <5>3. CASE s = "generation" /\ Generate
          BY <3>1, <4>1, <5>3 DEF Generate, At, RejectGeneration, CompleteGeneration, Holds, Row
        <5> QED
          BY <2>5, <5>1, <5>2, <5>3
      <4> QED
        BY <1>2, <3>1, <4>2 DEF WorkerStays
    <3> QED
      BY <1>0, <1>3, <3>1, WorkerMoves
  <2>6. CASE Rollback(s)
    BY <2>6 DEF Rollback, At, NothingTakenBack
  <2> QED
    BY <1>1, <1>3, <2>1, <2>2, <2>3, <2>4, <2>5, <2>6 DEF WorkerStep, TakeThrows
<1>4. ASSUME NEW r \in Stages, r # s, WorkerStep(r) PROVE worker'[s] = worker[s]
  BY <1>0, <1>4 DEF WorkerStep, Take, TakeThrows, Claim, Extract, Validate, Generate, Publish,
                    Rollback, Finish, Throw, Goto, Rest
<1>5. CASE Crash
  BY <1>5 DEF Crash, Booted, Idle, AtRest, WorkerStays
<1>6. CASE ListenerStep \/ BootStep \/ Expire \/ UploadStep \/ UNCHANGED vars
           \/ (\E r \in Stages, k \in Keys : RecoverStalled(r, k))
  BY <1>1, <1>6, UploadLeaves
     DEF ListenerStep, FinalizeFail, FinalizePark, CheckRegeneration, Republish,
         BootStep, Restart, BootFailedJobs, BootFail, BootPark, BootScan, BootPublish,
         Expire, process, vars, RecoverStalled
<1> QED
  BY <1>0, <1>1, <1>3, <1>4, <1>5, <1>6 DEF Next, ProcessStep

-------------------------------------------------------------------------------
(* Nobody is ahead of the row within its lifecycle either.                 *)

(* A new lifecycle starts with nothing but its request.                    *)
LEMMA UploadFresh ==
    ASSUME CInv, JobsPast, ProcessPast, Renew
    PROVE  /\ row'.live /\ row'.status = ClaimFrom["text-extraction"] /\ row'.key \in Keys
           /\ AwaitsUpload'
           /\ \A s \in Stages : job'[s][row'.key].state = "none"
           /\ \A s \in Stages : worker'[s].key # row'.key
           /\ completing'[row'.key] = "none"
           /\ boot'.pc = "done"
<1>1. /\ row'.live /\ row'.status = "UPLOADED" /\ row'.key = row.key + 1 /\ row.key + 1 \in Keys
      /\ UNCHANGED <<job, worker, completing, boot>> /\ boot.pc = "done"
      /\ upload' = [upload EXCEPT ![row.key].stored = FALSE, ![row.key + 1].pc = "save"]
  BY DEF Renew, NewRow, Serving
<1>2. row.key \in Nat /\ ~(row.key + 1 <= row.key) /\ upload \in [Keys -> Upload]
  BY StoreAssumption DEF CInv, TypeOK, StoreTypeOK, Row, Keys
<1>3. "text-extraction" \in Stages /\ ClaimFrom["text-extraction"] = "UPLOADED"
  BY DEF Stages, ClaimFrom
<1>4. \A s \in Stages : job[s][row.key + 1].state = "none"
  BY <1>1, <1>2 DEF JobsPast
<1>5. ~upload[row.key + 1].stored
  BY <1>1, <1>2 DEF ProcessPast, UploadsPast
<1>6. ~upload'[row.key + 1].stored
  BY <1>1, <1>2, <1>5 DEF Upload
<1>7. /\ \A s \in Stages : worker[s].key # row.key + 1
      /\ completing[row.key + 1] = "none"
  BY <1>1, <1>2 DEF ProcessPast, CInv, TypeOK
<1> QED
  BY <1>1, <1>3, <1>4, <1>6, <1>7 DEF AwaitsUpload

(* The other steps leave the lifecycle to the row, which goes forward.     *)
LEMMA NextForward ==
    ASSUME CInv, MaxFaults = 0, NothingTakenBack, [Next]_vars, row'.live, ~Renew
    PROVE  /\ row.live /\ row'.key = row.key /\ row.key \in Keys
           /\ \A s \in Stages : row.status \in Reached[s] => row'.status \in Reached[s]
<1>0. TypeOK /\ row.key \in Keys
  BY DEF CInv, TypeOK, StoreTypeOK, Row
<1>1. CASE UNCHANGED row
  BY <1>0, <1>1
<1>2. ASSUME NEW r \in Stages, Advances(r)
      PROVE  /\ row.live /\ row'.key = row.key
             /\ \A s \in Stages : row.status \in Reached[s] => row'.status \in Reached[s]
  BY <1>2, StageOrder DEF Advances
<1>3. ASSUME NEW r \in Stages, GivesUp(r)
      PROVE  /\ row.live /\ row'.key = row.key
             /\ \A s \in Stages : row.status \in Reached[s] => row'.status \in Reached[s]
  BY <1>3, StageOrder DEF GivesUp
<1> QED
  BY <1>0, <1>1, <1>2, <1>3, NextMoves

(* Without faults no handoff is taken back.                                *)
LEMMA NextNothingTakenBack ==
    ASSUME CInv, MaxFaults = 0, NothingTakenBack, [Next]_vars
    PROVE  NothingTakenBack'
<1> SUFFICES ASSUME NEW s \in Stages PROVE worker'[s].pc \notin {"rollback", "throw"}
  BY DEF NothingTakenBack
<1>1. \A k : Accept(s, k) \in {"work", "claim", "park", "finish"}
  BY DEF Accept
<1> QED
  BY <1>1, NextWorker DEF NothingTakenBack, Advances, WorkerStays

(* A job that appears is published by somebody who has got there.          *)
LEMMA NextReached ==
    ASSUME CInv, MaxFaults = 0, NothingTakenBack, JobsPast, ProcessPast,
           JobsReached, ClaimsHold, [Next]_vars
    PROVE  JobsReached'
<1> SUFFICES ASSUME row'.live
             PROVE  /\ \A s \in Stages :
                           job'[s][row'.key].state # "none" => row'.status \in Reached[s]
                    /\ completing'[row'.key] # "none" => row'.status \in Reached["generation"]
                    /\ boot'.pc = "publish" /\ boot'.key = row'.key =>
                           row'.status \in Reached[Booting']
  BY DEF JobsReached
<1>1. CASE Renew
  <2>1. ClaimFrom["text-extraction"] \in Reached["text-extraction"]
    BY StageOrder DEF Stages
  <2> QED
    BY <1>1, <2>1, UploadFresh
<1>2. CASE ~Renew
  <2>1. /\ row.live /\ row'.key = row.key /\ row.key \in Keys
        /\ \A s \in Stages : row.status \in Reached[s] => row'.status \in Reached[s]
    BY <1>2, NextForward
  <2>2. TypeOK /\ Booting \in Stages
    BY PipelineAssumption DEF CInv, TypeOK, Boot, Booting
  <2>3. ASSUME NEW s \in Stages, job'[s][row.key].state # "none"
        PROVE  row'.status \in Reached[s]
    <3>1. CASE job[s][row.key].state # "none"
      BY <2>1, <3>1 DEF JobsReached
    <3>2. CASE job[s][row.key].state = "none"
      <4>1. Publishes(s, row.key) \/ (worker[s].pc = "finish" /\ worker[s].key = row.key)
        BY <1>2, <2>1, <2>3, <3>2, NextJobs DEF JobStep
      <4>2. CASE worker[s].pc = "finish" /\ worker[s].key = row.key
        BY <3>2, <4>2 DEF CInv, WorkersAgree
      <4>3. CASE Publishes(s, row.key)
        <5>1. row.status \in Status /\ Reached["text-extraction"] = Status
          BY <2>2 DEF TypeOK, StoreTypeOK, Row, Reached, Stages
        <5> QED
          BY <2>1, <4>3, <5>1, StageOrder DEF Publishes, JobsReached, ClaimsHold
      <4> QED
        BY <4>1, <4>2, <4>3
    <3> QED
      BY <3>1, <3>2
  <2>4. ASSUME completing'[row.key] # "none" PROVE row'.status \in Reached["generation"]
    BY <2>1, <2>4, NextCompleting, StageOrder DEF JobsReached
  <2>5. ASSUME boot'.pc = "publish", boot'.key = row.key
        PROVE  row'.status \in Reached[Booting']
    <3>1. CASE boot.pc = "publish" /\ UNCHANGED boot
      BY <2>1, <2>2, <2>5, <3>1 DEF JobsReached, Booting
    <3>2. CASE Booting' = Booting /\ row.status \in InFlight(Booting)
      BY <2>1, <2>2, <3>2, StageOrder
    <3> QED
      BY <2>2, <2>5, <3>1, <3>2, NextBootPublish
  <2> QED
    BY <2>1, <2>3, <2>4, <2>5
<1> QED
  BY <1>1, <1>2

(* A worker that the row is not waiting for any more is not overtaken.     *)
LEMMA NextClaims ==
    ASSUME CInv, MaxFaults = 0, NothingTakenBack, JobsPast, ProcessPast,
           JobsReached, ClaimsHold, [Next]_vars
    PROVE  ClaimsHold'
<1> SUFFICES ASSUME row'.live, NEW s \in Stages, worker'[s].key = row'.key
             PROVE  /\ worker'[s].pc = "claim" => row'.status \in {ClaimFrom[s], "FAILED"}
                    /\ worker'[s].pc = "work" => row'.status \in {ClaimTo[s], "FAILED"}
                    /\ worker'[s].pc = "publish" =>
                           s \in Publishers /\ row'.status \in Reached[NextStage[s]]
                    /\ worker'[s].pc \in {"park", "finish", "publish"} =>
                           /\ row'.status # ClaimTo[s]
                           /\ s # "generation" => row'.status # ClaimFrom[s]
  BY DEF ClaimsHold
<1>1. ~Renew
  BY UploadFresh
<1>2. /\ row.live /\ row'.key = row.key /\ row.key \in Keys
      /\ \A r \in Stages : row.status \in Reached[r] => row'.status \in Reached[r]
  BY <1>1, NextForward
<1>3. CASE worker'[s] = worker[s]
  <2>1. worker[s].pc # "idle" => row.status \in Reached[s]
    BY <1>2, <1>3 DEF CInv, WorkersAgree, JobsReached
  <2>2. CASE UNCHANGED row
    BY <1>2, <1>3, <2>2 DEF ClaimsHold
  <2>3. ASSUME NEW r \in Stages, Advances(r)
        PROVE  /\ worker'[s].pc = "claim" => row'.status \in {ClaimFrom[s], "FAILED"}
               /\ worker'[s].pc = "work" => row'.status \in {ClaimTo[s], "FAILED"}
               /\ worker'[s].pc \in {"park", "finish", "publish"} =>
                      /\ row'.status # ClaimTo[s]
                      /\ s # "generation" => row'.status # ClaimFrom[s]
    <3>1. r # s /\ row.status \in {ClaimFrom[r], ClaimTo[r]}
      BY <1>3, <2>3 DEF Advances
    <3>2. worker[s].pc \notin {"claim", "work"}
      BY <1>2, <1>3, <3>1, StageOrder DEF ClaimsHold
    <3>3. worker[s].pc # "idle" => row'.status # ClaimTo[s] /\ row'.status # ClaimFrom[s]
      BY <2>1, <2>3, <3>1, StageOrder DEF Advances
    <3> QED
      BY <1>3, <3>2, <3>3
  <2>4. ASSUME NEW r \in Stages, GivesUp(r) PROVE row'.status = "FAILED"
    BY <2>4 DEF GivesUp
  <2>5. ClaimFrom[s] # "FAILED" /\ ClaimTo[s] # "FAILED"
        /\ \A r \in Stages : "FAILED" \in Reached[r]
    BY StageOrder
  <2>6. worker'[s].pc = "publish" => s \in Publishers /\ row'.status \in Reached[NextStage[s]]
    BY <1>2, <1>3, StageOrder DEF ClaimsHold
  <2> QED
    BY <1>1, <2>2, <2>3, <2>4, <2>5, <2>6, NextMoves DEF CInv
<1>4. CASE Advances(s)
  BY <1>4, StageOrder DEF Advances
<1>5. CASE WorkerStays(s) /\ worker'[s] # worker[s]
  <2>1. CASE worker'[s].pc = "idle"
    BY <2>1
  <2>2. CASE worker'[s].pc = Accept(s, row.key) /\ UNCHANGED row
    BY <1>2, <2>2, StageOrder DEF Accept, Holds, AlreadyExhausted
  <2>3. CASE /\ worker'[s].key = worker[s].key /\ worker'[s].pc = "finish" /\ UNCHANGED row
             /\ \/ worker[s].pc = "claim" /\ ~Holds(worker[s].key, {ClaimFrom[s]})
                \/ worker[s].pc = "work" /\ ~Holds(worker[s].key, {ClaimTo[s]})
                \/ worker[s].pc = "publish"
    BY <1>2, <2>3, StageOrder DEF Holds, ClaimsHold
  <2> QED
    BY <1>2, <1>5, <2>1, <2>2, <2>3 DEF WorkerStays
<1> QED
  BY <1>3, <1>4, <1>5, NextWorker

-------------------------------------------------------------------------------
(* So nobody is stranded.                                                  *)

(* An invoice comes into a stage whose job nobody has published before.    *)
LEMMA NextInStage ==
    ASSUME CInv, MaxFaults = 0, NothingTakenBack, JobsReached, [Next]_vars, ~Renew,
           NEW s \in Stages, InStage(s)'
    PROVE  /\ row'.key = row.key /\ row.key \in Keys
           /\ \/ InStage(s) /\ UNCHANGED row
              \/ InStage(s) /\ Advances(s)
              \/ /\ job[s][row.key].state = "none"
                 /\ \E p \in Publishers : /\ NextStage[p] = s
                                          /\ worker'[p].key = row.key
                                          /\ worker'[p].pc = "publish"
<1>1. row'.live /\ row'.status \in {ClaimFrom[s], ClaimTo[s]}
  BY StageOrder DEF InStage
<1>2. row.live /\ row'.key = row.key /\ row.key \in Keys
  BY <1>1, NextForward
<1>3. CASE UNCHANGED row
  BY <1>2, <1>3 DEF InStage
<1>4. ASSUME NEW r \in Stages, GivesUp(r) PROVE FALSE
  BY <1>1, <1>4, StageOrder DEF GivesUp
<1>5. ASSUME NEW r \in Stages, Advances(r)
      PROVE  \/ InStage(s) /\ r = s
             \/ /\ job[s][row.key].state = "none"
                /\ \E p \in Publishers : /\ NextStage[p] = s
                                         /\ worker'[p].key = row.key
                                         /\ worker'[p].pc = "publish"
  <2>1. CASE row.status = ClaimFrom[r] /\ row'.status = ClaimTo[r]
    BY <1>1, <1>2, <2>1, StageOrder DEF InStage
  <2>2. CASE /\ r \in Publishers /\ row.status = ClaimTo[r] /\ row'.status = ClaimFrom[NextStage[r]]
             /\ worker'[r].pc = "publish" /\ worker'[r].key = row.key
    <3>1. NextStage[r] = s
      BY <1>1, <2>2, StageOrder
    <3>2. row.status \notin Reached[s]
      BY <2>2, <3>1, StageOrder
    <3> QED
      BY <1>2, <2>2, <3>1, <3>2 DEF JobsReached
  <2>3. row'.status \notin Resting
    BY <1>1, StageOrder
  <2> QED
    BY <1>5, <2>1, <2>2, <2>3 DEF Advances
<1> QED
  BY <1>1, <1>2, <1>3, <1>4, <1>5, NextMoves DEF CInv

(* Not with a failed job,                                                  *)
LEMMA NextGivenUp ==
    ASSUME CInv, MaxFaults = 0, NothingTakenBack, JobsPast, ProcessPast, JobsReached,
           [Next]_vars, NEW s \in Stages, GivenUp(s)'
    PROVE  GivenUp(s)
<1>1. ~Renew
  BY UploadFresh DEF GivenUp
<1>2. InStage(s)'
  BY DEF GivenUp
<1>3. /\ row'.key = row.key /\ row.key \in Keys
      /\ InStage(s) \/ job[s][row.key].state = "none"
  BY <1>1, <1>2, NextInStage
<1>4. /\ job'[s][row.key].state = "failed" /\ failing'[s][row.key] # "fail"
      /\ ~WillFail(s, row.key)' /\ boot'.pc # "down"
  BY <1>3 DEF GivenUp, WillFail, StillToCome
<1>5. job[s][row.key].state = "failed"
  BY <1>1, <1>3, <1>4, NextJobs DEF JobStep, CInv, WorkersAgree
<1>6. failing[s][row.key] # "fail"
  BY <1>2, <1>3, <1>4, NextFailing DEF CInv, InStage
<1>7. ~WillFail(s, row.key)
  BY <1>2, <1>3, <1>4, <1>5, NextWillFail DEF CInv, InStage
<1> QED
  BY <1>3, <1>5, <1>6, <1>7 DEF GivenUp

(* and not without one.                                                    *)
LEMMA NextOrphaned ==
    ASSUME CInv, MaxFaults = 0, NothingTakenBack, JobsPast, ProcessPast, JobsReached,
           ClaimsHold, [Next]_vars, NEW s \in Stages, Orphaned(s)'
    PROVE  Orphaned(s) /\ row'.key = row.key
<1>1. ~Renew
  BY UploadFresh DEF Orphaned
<1>2. InStage(s)'
  BY DEF Orphaned
<1>3. row'.key = row.key /\ row.key \in Keys
  BY <1>1, <1>2, NextInStage
<1>4. /\ job'[s][row.key].state = "none" /\ boot'.pc # "down" /\ ~WillScan(s, row.key)'
      /\ \A p \in Publishers :
             ~(NextStage[p] = s /\ worker'[p].key = row.key /\ worker'[p].pc = "publish")
      /\ s = "generation" => /\ completing'[row.key] # "publish"
                             /\ completing'[row.key] = "check" => row'.status # "GENERATING"
      /\ s = "text-extraction" => upload'[row.key].pc # "enqueue"
      /\ row'.status = "UPLOADED" => upload'[row.key].stored
  BY <1>3 DEF Orphaned, WillPublish, WillScan, StillToCome, AwaitsUpload
<1>5. InStage(s)
  BY <1>1, <1>2, <1>4, NextInStage
<1>6. job[s][row.key].state = "none"
  <2>1. ASSUME worker[s].pc = "finish", worker[s].key = row.key, UNCHANGED row,
               s = "generation" => completing'[row.key] = "check"
        PROVE  FALSE
    <3>1. row.status # ClaimTo[s] /\ (s # "generation" => row.status # ClaimFrom[s])
      BY <1>5, <2>1 DEF ClaimsHold, InStage
    <3>2. s = "generation" /\ row.status = "GENERATING"
      BY <1>5, <3>1, StageOrder DEF InStage
    <3> QED
      BY <1>4, <2>1, <3>2
  <2> QED
    BY <1>1, <1>3, <1>4, <2>1, NextJobs DEF JobStep
<1>7. UNCHANGED row
  <2>1. ~Advances(s)
    <3>1. ASSUME Advances(s) PROVE FALSE
      <4>1. worker[s].key = row.key /\ worker[s].pc # "idle"
        BY <3>1 DEF Advances
      <4> QED
        BY <1>6, <4>1 DEF CInv, WorkersAgree
    <3> QED
      BY <3>1
  <2> QED
    BY <1>1, <1>2, <1>4, <2>1, NextInStage
<1>8. ~AwaitsUpload
  <2>1. AwaitsUpload => s = "text-extraction"
    BY <1>5, StageOrder DEF AwaitsUpload, InStage, ClaimFrom, ClaimTo, Stages
  <2> QED
    BY <1>1, <1>3, <1>4, <1>7, <2>1, NextUpload DEF AwaitsUpload
<1>9. ASSUME WillPublish(s, row.key) PROVE FALSE
  <2>1. ASSUME NEW p \in Publishers, NextStage[p] = s, worker[p].key = row.key,
               worker[p].pc = "publish"
        PROVE  FALSE
    <3>1. p \in Stages
      BY StageOrder
    <3>2. ~Advances(p) /\ worker'[p] # worker[p]
      BY <1>4, <2>1 DEF Advances
    <3>3. WorkerStays(p)
      BY <3>1, <3>2, NextWorker
    <3> QED
      BY <1>4, <2>1, <3>2, <3>3 DEF WorkerStays
  <2>2. ~(s = "generation" /\ completing[row.key] = "publish")
    BY <1>3, <1>4, <1>6, NextCompleting
  <2>3. ASSUME s = "generation", completing[row.key] = "check", row.status = "GENERATING"
        PROVE  FALSE
    <3>1. Holds(row.key, {"GENERATING"})
      BY <1>5, <2>3 DEF Holds, InStage
    <3> QED
      BY <1>3, <1>4, <1>6, <1>7, <2>3, <3>1, NextCompleting
  <2>4. ~WillScan(s, row.key)
    BY <1>3, <1>4, <1>5, <1>8, NextWillScan
  <2>5. ~(s = "text-extraction" /\ upload[row.key].pc = "enqueue")
    BY <1>1, <1>3, <1>4, NextUpload
  <2> QED
    BY <1>9, <2>1, <2>2, <2>3, <2>4, <2>5 DEF WillPublish
<1> QED
  BY <1>3, <1>5, <1>6, <1>8, <1>9 DEF Orphaned

(* The inductive invariant of the stages: the work only goes forward.      *)
Forward ==
    /\ NothingTakenBack
    /\ JobsPast /\ ProcessPast
    /\ JobsReached /\ ClaimsHold

(* It holds of the first invoice, whose job or upload is there,            *)
LEMMA InitForward ==
    ASSUME CInv, Init
    PROVE  Forward /\ \A s \in Stages : ~GivenUp(s) /\ ~Orphaned(s)
<1>1. /\ row.key = 1 /\ row.status = ClaimFrom[FirstStage] /\ row.live
      /\ 1 \in Keys /\ FirstStage \in Stages
      /\ \A s \in Stages : worker[s].pc = "idle" /\ worker[s].key = 1
      /\ \A k \in Keys : completing[k] = "none"
      /\ boot.pc = "done" /\ boot.key = 1 /\ boot.todo = {}
  BY StoreAssumption, PipelineAssumption DEF Init, NewRow, Idle, AtRest, Booted, Keys
<1>2. \A s \in Stages, k \in Keys :
          job[s][k] = IF s = FirstStage /\ k = 1 /\ s # "text-extraction" THEN FreshJob
                      ELSE NoJob
  BY DEF Init
<1>3. FreshJob.state = "waiting" /\ NoJob.state = "none"
  BY DEF FreshJob, NoJob
<1>4. JobsPast /\ NothingTakenBack /\ ClaimsHold
  BY <1>1, <1>2, <1>3 DEF JobsPast, NothingTakenBack, ClaimsHold
<1>8. UploadsPast
  BY <1>1 DEF Init, UploadsPast
<1>9. ProcessPast
  BY <1>1, <1>8 DEF ProcessPast
<1>5. JobsReached
  BY <1>1, <1>2, <1>3, StageOrder DEF JobsReached
<1>6. \A s \in Stages : InStage(s) => s = FirstStage
  BY <1>1, StageOrder DEF InStage
<1>7. \A s \in Stages : ~GivenUp(s) /\ ~Orphaned(s)
  <2>1. CASE FirstStage = "text-extraction"
    <3>1. row.status = "UPLOADED" /\ ~upload[1].stored
      BY <1>1, <2>1 DEF Init, ClaimFrom, Stages
    <3> QED
      BY <1>1, <1>2, <1>3, <3>1 DEF GivenUp, Orphaned, AwaitsUpload
  <2>2. CASE FirstStage # "text-extraction"
    BY <1>1, <1>2, <1>3, <1>6, <2>2 DEF GivenUp, Orphaned
  <2> QED
    BY <2>1, <2>2
<1> QED
  BY <1>4, <1>5, <1>7, <1>9 DEF Forward

(* and every step keeps it.                                                *)
LEMMA NextKeepsForward ==
    ASSUME CInv, CInv', MaxFaults = 0, Forward, [Next]_vars PROVE Forward'
BY NextPast, NextNothingTakenBack, NextReached, NextClaims DEF Forward

(* An invoice in processing that has its file is driven: its job runs, or  *)
(* it would have been given up or orphaned.                                *)
LEMMA StageDriven ==
    ASSUME TypeOK, NEW s \in Stages, InStage(s), ~AwaitsUpload, ~GivenUp(s), ~Orphaned(s)
    PROVE  Driven(s, row.key)
<1>1. job[s][row.key].state \in {"none", "waiting", "active", "failed"}
  BY DEF TypeOK, StoreTypeOK, Row, Job
<1>2. WillFail(s, row.key) \/ WillScan(s, row.key) => ~Serving
  BY DEF WillFail, WillScan, StillToCome, Serving
<1>3. WillPublish(s, row.key) => Driven(s, row.key)
  BY <1>2 DEF WillPublish, Driven
<1> QED
  BY <1>1, <1>2, <1>3 DEF GivenUp, Orphaned, Driven, WillRun

(* As long as no call to Redis fails on its own, an invoice in processing  *)
(* always has somebody who moves it on: however the workers interleave,    *)
(* whenever the process dies, in whatever order its startup reconciles,    *)
(* and between the steps of an upload too.  Only one whose file was never  *)
(* stored waits for its user, and only the calls of Faults strand one,     *)
(* until the next startup.                                                 *)
THEOREM NoInvoiceIsStranded ==
    ASSUME MaxFaults = 0 PROVE Spec => []NoStrandedInvoice
<1> DEFINE Kept == CInv /\ Forward /\ \A s \in Stages : ~GivenUp(s) /\ ~Orphaned(s)
<1>1. Init /\ CInv => Kept
  BY InitForward
<1>2. Kept /\ [Next]_vars /\ CInv' => Kept'
  <2> SUFFICES ASSUME Kept, [Next]_vars, CInv' PROVE Kept'
    OBVIOUS
  <2>1. Forward'
    BY NextKeepsForward
  <2>2. ASSUME NEW s \in Stages PROVE ~GivenUp(s)' /\ ~Orphaned(s)'
    BY NextGivenUp, NextOrphaned DEF Forward
  <2> QED
    BY <2>1, <2>2
<1>3. Kept => NoStrandedInvoice
  BY StageDriven DEF CInv, NoStrandedInvoice, InStage
<1>4. IInv => CInv
  BY IInvParts
<1> QED
  BY <1>1, <1>2, <1>3, <1>4, Bookkeeping, PTL DEF Spec
===============================================================================
