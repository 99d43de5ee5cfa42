-------------------------- MODULE LatestDocumentProofs --------------------------
(***************************************************************************)
(* The document of a READY invoice belongs to its last correction.  An     *)
(* enqueue that fails, or a retry, can break this (README, Findings), so   *)
(* the theorem is about what is left: any number of reviewers, corrections,*)
(* lifecycles, attempts, crashes, startups and failing listeners, with the *)
(* enqueues that BullMQ accepts and without retries.                       *)
(***************************************************************************)
EXTENDS ReviewPipelineProofs

(* Neither a producer nor a reviewer takes a handoff back.                 *)
NoRollbacks ==
    /\ \A s \in Stages : worker[s].pc # "rollback"
    /\ \A u \in Reviewers : reviewer[u].pc # "rollback"

(* Where an invoice can be while the generation worker has a copy of it:   *)
(* out of the reach of a correction.                                       *)
Held == {"GENERATING", "GENERATING_DOCUMENT", "FAILED"}

GenerationKnows ==
    LET w == worker["generation"]
    IN  w.pc \in {"claim", "work"} /\ w.key = row.key =>
            row.status \in Held /\ w.version = row.version

(* Inductive, beside the types and the documents of ReviewPipelineProofs.  *)
LInv ==
    /\ NoRollbacks /\ JobsPast /\ WorkPast
    /\ GenerationKnows /\ LatestCorrectionGenerated

-------------------------------------------------------------------------------
(* Where enqueues do not throw, nobody rolls back.                         *)
LEMMA ReviewNextNoRollbacks ==
    ASSUME RInv, NoRollbacks, [ReviewNext]_allVars, Faults \subseteq {"listener"}
    PROVE  NoRollbacks'
<1>0. /\ worker \in [Stages -> Worker] /\ reviewer \in [Reviewers -> Reviewer]
      /\ ~Fault("rejected") /\ ~Fault("uncertain")
  BY DEF RInv, CInv, TypeOK, PeopleOK, Fault
<1>1. ASSUME NEW s \in Stages, WorkerStep(s) \/ Park(s)
      PROVE  \A r \in Stages : worker'[r].pc # "rollback"
  <2>1. AtRest.pc = "idle"
    BY DEF AtRest
  <2>2. \A k : Accept(s, k) # "rollback"
    BY DEF Accept
  <2>3. ASSUME NEW k \in Keys, Take(s, k)
        PROVE  \A r \in Stages : worker'[r].pc # "rollback"
    <3>1. worker'[s].pc = Accept(s, k) /\ \A r \in Stages \ {s} : worker'[r] = worker[r]
      BY <1>0, <2>3 DEF Take
    <3> QED
      BY <2>2, <3>1 DEF NoRollbacks
  <2>4. CASE \/ UNCHANGED worker \/ Rest(s)
             \/ Goto(s, "work") \/ Goto(s, "publish") \/ Goto(s, "finish") \/ Goto(s, "throw")
    BY <1>0, <2>1, <2>4 DEF Goto, Rest, Worker, NoRollbacks
  <2> QED
    BY <1>1, <2>3, <2>4 DEF WorkerStep, Park, TakeThrows, Claim, Extract, Validate, Generate,
                            Publish, Rollback, Finish, Throw
<1>2. ASSUME PipelineStep \/ Crash PROVE \A r \in Stages : worker'[r].pc # "rollback"
  <2>1. ASSUME UNCHANGED worker PROVE \A r \in Stages : worker'[r].pc # "rollback"
    BY <2>1 DEF NoRollbacks
  <2>2. ASSUME NEW s \in Stages, PublishFails(s) PROVE FALSE
    BY <1>0, <2>2 DEF PublishFails
  <2>3. CASE ListenerStep \/ BootStep \/ Expire \/ UploadStep
             \/ (\E s \in Stages, k \in Keys : RecoverStalled(s, k))
    BY <2>1, <2>3, UploadLeaves DEF ListenerStep, FinalizeFail, FinalizePark, CheckRegeneration, Republish,
       BootStep, Restart, BootFailedJobs, BootFail, BootPark, BootScan, BootPublish,
       Expire, process, RecoverStalled
  <2>4. CASE FaultStep
    BY <2>1, <2>2, <2>4 DEF FaultStep, FinalizeFails, RepublishFails
  <2>5. CASE Crash
    BY <2>5 DEF Crash, Idle, AtRest
  <2> QED
    BY <1>1, <1>2, <2>3, <2>4, <2>5 DEF PipelineStep, ProcessStep
<1>3. ASSUME NEW u \in Reviewers, ReviewerStep(u)
      PROVE  UNCHANGED worker /\ \A v \in Reviewers : reviewer'[v].pc # "rollback"
  <2>1. ~EnqueueGenerationFails(u)
    BY <1>0 DEF EnqueueGenerationFails
  <2> QED
    BY <1>0, <1>3, <2>1 DEF ReviewerStep, OpenReview, Submit, SubmitRefused, EnqueueGeneration,
                            ReturnToReview, vars, process, Reviewer, NoRollbacks
<1>4. ASSUME NEW u \in Retriers, RetrierStep(u) PROVE UNCHANGED <<worker, reviewer>>
  BY <1>4 DEF RetrierStep, StartRetry, CleanFailedJob, Reopen, PublishRetry, PublishRetryFails,
              DropDeadLetter, vars, process
<1>5. ASSUME RequestsDie PROVE \A v \in Reviewers : reviewer'[v].pc # "rollback"
  BY <1>0, <1>5 DEF RequestsDie, Reviewer
<1> QED
  BY <1>1, <1>2, <1>3, <1>4, <1>5
     DEF ReviewNext, PipelineStep, NoRollbacks, people, allVars, vars, process


-------------------------------------------------------------------------------
(* Who writes what.                                                        *)

(* A write of the status that leaves a held invoice held.                  *)
StatusOnly ==
    /\ row'.key = row.key /\ row'.version = row.version /\ row'.documents = row.documents
    /\ row.status # "READY" /\ row'.status # "READY"
    /\ row.status \in Held => row'.status \in Held

(* The generation worker ends its stage.                                   *)
GenerateWrite ==
    LET w == worker["generation"]
    IN  /\ w.pc = "work" /\ worker'["generation"].pc = "finish"
        /\ w.key = row.key /\ row.status = "GENERATING_DOCUMENT"
        /\ row'.key = row.key /\ row'.version = row.version
        /\ row'.status = "READY" =>
               row'.documents = Append(row.documents, [version |-> w.version, valid |-> TRUE])

Writes == UNCHANGED row \/ LifetimeWrite \/ Correction \/ StatusOnly \/ GenerateWrite

(* A failing stage, or one that hands over, writes the status alone.       *)
LEMMA FailWrites ==
    ASSUME row \in Row, NEW s \in Stages, NEW k,
           FailIrrecoverably(s, k) \/ FailIrrecoverablyLost(s, k)
    PROVE  UNCHANGED row \/ StatusOnly
<1>1. "READY" \notin InFlight(s)
  BY DEF InFlight, ClaimFrom, ClaimTo, Stages
<1> QED
  BY <1>1, ZenonT(60) DEF FailIrrecoverably, FailIrrecoverablyLost, FailsIrrecoverably, Holds, StatusOnly,
              Held, Row

(* The workers.                                                            *)
LEMMA WorkerWrites ==
    ASSUME RInv, NoRollbacks, NEW s \in Stages, WorkerStep(s)
    PROVE  Writes
<1>0. row \in Row /\ worker \in [Stages -> Worker] /\ "generation" \in Stages
  BY StageFacts DEF RInv, CInv, TypeOK, StoreTypeOK
<1>1. CASE \/ Publish(s) \/ Finish(s) \/ Throw(s)
           \/ \E k \in Keys : Take(s, k) \/ TakeThrows(s, k)
  BY <1>1 DEF Publish, Finish, Throw, Take, TakeThrows, Writes
<1>2. CASE Claim(s)
  <2>1. ClaimFrom[s] # "READY" /\ ClaimTo[s] # "READY"
        /\ (ClaimFrom[s] \in Held => ClaimTo[s] \in Held)
    BY DEF ClaimFrom, ClaimTo, Stages, Held
  <2> QED
    BY <1>0, <1>2, <2>1, SMTT(30) DEF Claim, Transition, Holds, Row, Writes, StatusOnly
<1>3. CASE Extract(s)
  <2>1. ClaimTo[s] # "READY" /\ ClaimFrom[NextStage[s]] # "READY" /\ ClaimTo[s] \notin Held
    BY <1>3 DEF Extract, ClaimFrom, ClaimTo, NextStage, Publishers, Stages, Held
  <2> QED
    BY <1>0, <1>3, <2>1, ZenonT(60)
       DEF Extract, Transition, TransitionToFailed, Holds, Row, Writes, StatusOnly
<1>4. CASE s = "validation" /\ Validate
  BY <1>0, <1>4, ZenonT(60) DEF Validate, CompleteValidation, Holds, Row, Writes, StatusOnly, Held
<1>5. CASE s = "generation" /\ Generate
  <2>1. /\ worker["generation"].pc = "work" /\ worker'["generation"].pc = "finish"
    BY <1>0, <1>5 DEF Generate, At, Goto, Worker
  <2>2. CASE RejectGeneration(worker["generation"].key)
    <3>1. /\ worker["generation"].key = row.key /\ row.status = "GENERATING_DOCUMENT"
          /\ row'.key = row.key /\ row'.version = row.version /\ row'.status # "READY"
      BY <1>0, <2>2 DEF RejectGeneration, Holds, Row
    <3> QED
      BY <2>1, <3>1 DEF Writes, GenerateWrite
  <2>3. ASSUME NEW valid \in BOOLEAN,
               CompleteGeneration(worker["generation"].key, worker["generation"].version, valid)
        PROVE  Writes
    <3>1. /\ worker["generation"].key = row.key /\ row.status = "GENERATING_DOCUMENT"
          /\ row'.key = row.key /\ row'.version = row.version
          /\ row'.status = (IF valid THEN "READY" ELSE "NEEDS_REVIEW")
          /\ row'.documents = Append(row.documents, [version |-> worker["generation"].version,
                                                    valid |-> valid])
      BY <1>0, <2>3 DEF CompleteGeneration, Holds, Row
    <3>2. row'.status = "READY" => valid = TRUE
      BY <3>1
    <3> QED
      BY <2>1, <3>1, <3>2 DEF Writes, GenerateWrite
  <2>4. CASE UNCHANGED row
    BY <2>4 DEF Writes
  <2> QED
    BY <1>5, <2>2, <2>3, <2>4 DEF Generate
<1>6. ~Rollback(s)
  BY DEF Rollback, At, NoRollbacks
<1> QED
  BY <1>1, <1>2, <1>3, <1>4, <1>5, <1>6 DEF WorkerStep

(* Everybody.                                                              *)
LEMMA ReviewNextWrites ==
    ASSUME RInv, NoRollbacks, [ReviewNext]_allVars, Retriers = {}
    PROVE  Writes
<1>0. row \in Row
  BY DEF RInv, CInv, TypeOK, StoreTypeOK
<1>1. ASSUME UNCHANGED row PROVE Writes
  BY <1>1 DEF Writes
<1>2. ASSUME NEW s \in Stages, WorkerStep(s) PROVE Writes
  BY <1>2, WorkerWrites
<1>3. ASSUME NEW s \in Stages, NEW k \in Keys, FinalizeFail(s, k) PROVE Writes
  BY <1>0, <1>3, FailWrites DEF FinalizeFail, Writes
<1>4. ASSUME NEW k \in Keys, BootFail(k) PROVE Writes
  <2>1. Booting \in Stages
    BY PipelineAssumption DEF RInv, CInv, TypeOK, Boot, Booting
  <2> QED
    BY <1>0, <1>4, <2>1, FailWrites DEF BootFail, Writes
<1>5. CASE Expire \/ UploadStep
  BY <1>1, <1>5, UploadLeaves DEF Expire, Renew, LifetimeWrite, Writes
<1>6. CASE Crash \/ \E s \in Stages : Park(s)
  BY <1>6 DEF Crash, Park, store, Writes
<1>7. CASE ProcessStep
  BY <1>1, <1>2, <1>3, <1>4, <1>7
     DEF ProcessStep, RecoverStalled, ListenerStep, FinalizePark, CheckRegeneration, Republish,
         BootStep, Restart, BootFailedJobs, BootPark, BootScan, BootPublish,
         FaultStep, PublishFails, FinalizeFails, RepublishFails, store
<1>8. ASSUME NEW u \in Reviewers, ReviewerStep(u) PROVE Writes
  <2>1. ~ReturnToReview(u)
    BY DEF ReturnToReview, Reviewing, NoRollbacks
  <2>2. CASE Submit(u)
    BY <2>2 DEF Submit, Corrects, Holds, Correction, Writes
  <2> QED
    BY <1>1, <1>8, <2>1, <2>2 DEF ReviewerStep, OpenReview, SubmitRefused, EnqueueGeneration,
                                  EnqueueGenerationFails, vars, store
<1> QED
  BY <1>1, <1>5, <1>6, <1>7, <1>8 DEF ReviewNext, allVars, vars, store

-------------------------------------------------------------------------------
(* What the generation worker knows.                                       *)

(* It copies the version with the status it goes by, and keeps both until  *)
(* it ends.                                                                *)
LEMMA GenerationCopies ==
    ASSUME RInv, [ReviewNext]_allVars, worker'["generation"].pc \in {"claim", "work"}
    PROVE  LET w == worker["generation"]
           IN  \/ /\ UNCHANGED row
                  /\ worker'["generation"].key = row.key => row.status \in Held
                  /\ worker'["generation"].version = row.version
               \/ /\ w.pc \in {"claim", "work"}
                  /\ worker'["generation"].key = w.key
                  /\ worker'["generation"].version = w.version
<1> DEFINE w == worker["generation"]
           Same == w.pc \in {"claim", "work"} /\ worker'["generation"].key = w.key
                   /\ worker'["generation"].version = w.version
           Copied == UNCHANGED row /\ worker'["generation"].version = row.version
                     /\ (worker'["generation"].key = row.key => row.status \in Held)
<1>0. worker \in [Stages -> Worker] /\ "generation" \in Stages
  BY StageFacts DEF RInv, CInv, TypeOK
<1>1. ASSUME worker'["generation"] = w PROVE Same
  BY <1>1
<1>2. ASSUME NEW s \in Stages, s # "generation", WorkerStep(s) \/ Park(s) \/ PublishFails(s)
      PROVE  worker'["generation"] = w
  BY <1>0, <1>2 DEF WorkerStep, Take, TakeThrows, Claim, Extract, Validate, Generate, Publish,
                    Rollback, Finish, Throw, Park, PublishFails, Goto, Rest
<1>3. ASSUME NEW k \in Keys, Take("generation", k) PROVE Copied
  <2>1. /\ UNCHANGED row
        /\ worker'["generation"] = [pc |-> Accept("generation", k), key |-> k,
                                    version |-> row.version]
    BY <1>0, <1>3 DEF Take
  <2>2. k = row.key => row.status \in Held
    BY <2>1 DEF Accept, Holds, AlreadyExhausted, Held, ClaimTo, ClaimFrom, Stages
  <2> QED
    BY <2>1, <2>2
<1>4. CASE Claim("generation")
  BY <1>0, <1>4 DEF Claim, At, Goto, Worker
<1>5. CASE Generate \/ Finish("generation") \/ Throw("generation") \/ Park("generation")
           \/ (\E k \in Keys : TakeThrows("generation", k))
  <2>1. AtRest.pc = "idle"
    BY DEF AtRest
  <2>2. CASE UNCHANGED worker
    BY <1>1, <2>2
  <2>3. CASE Rest("generation") \/ Goto("generation", "finish")
    BY <1>0, <2>1, <2>3 DEF Rest, Goto, Worker
  <2> QED
    BY <1>5, <2>2, <2>3 DEF Generate, Finish, Throw, Park, TakeThrows
<1>6. CASE WorkerStep("generation")
  <2>1. ~Extract("generation") /\ "generation" \notin Publishers
    BY DEF Extract, Publishers
  <2> QED
    BY <1>3, <1>4, <1>5, <1>6, <2>1 DEF WorkerStep, Publish, Rollback
<1>7. ASSUME UNCHANGED worker PROVE Same
  BY <1>1, <1>7
<1>8. CASE Crash
  BY <1>0, <1>8 DEF Crash, Idle, AtRest
<1>9. ASSUME NEW s \in Stages, PublishFails(s) PROVE Same
  <2>1. s # "generation"
    BY <1>9 DEF PublishFails, Publishers
  <2> QED
    BY <1>1, <1>2, <1>9, <2>1
<1>10. CASE ProcessStep
  BY <1>1, <1>2, <1>6, <1>7, <1>9, <1>10
     DEF ProcessStep, RecoverStalled, ListenerStep, FinalizeFail, FinalizePark,
         CheckRegeneration, Republish, BootStep, Restart, BootFailedJobs, BootFail, BootPark,
         BootScan, BootPublish, FaultStep, FinalizeFails, RepublishFails
<1>11. CASE Expire \/ UploadStep \/ UNCHANGED vars
  BY <1>7, <1>11, UploadLeaves DEF Expire, vars, process
<1>12. ASSUME NEW s \in Stages, Park(s) PROVE Same \/ Copied
  BY <1>1, <1>2, <1>5, <1>12
<1>13. ASSUME \/ \E u \in Reviewers : ReviewerStep(u)
              \/ \E u \in Retriers : RetrierStep(u)
       PROVE  UNCHANGED worker
  BY <1>13 DEF ReviewerStep, OpenReview, Submit, SubmitRefused, EnqueueGeneration,
               EnqueueGenerationFails, ReturnToReview,
               RetrierStep, StartRetry, CleanFailedJob, Reopen, PublishRetry, PublishRetryFails,
               DropDeadLetter, vars, process
<1> QED
  BY <1>7, <1>8, <1>10, <1>11, <1>12, <1>13 DEF ReviewNext, allVars


(* So what it knows stays true: nothing else takes the invoice from the    *)
(* statuses in which it is held.                                           *)
LEMMA ReviewNextKnows ==
    ASSUME RInv, RInv', NoRollbacks, WorkPast, GenerationKnows, [ReviewNext]_allVars, Retriers = {}
    PROVE  GenerationKnows'
<1> DEFINE w == worker["generation"]
<1> SUFFICES ASSUME worker'["generation"].pc \in {"claim", "work"},
                    worker'["generation"].key = row'.key
             PROVE  row'.status \in Held /\ worker'["generation"].version = row'.version
  BY DEF GenerationKnows
<1>0. /\ row \in Row /\ row.key \in Nat /\ row'.key \in Nat /\ w.key \in Nat /\ w.key <= row.key
      /\ row.key <= row'.key
  <2>1. row \in Row /\ row' \in Row /\ w \in Worker /\ w.key <= row.key
    BY StageFacts DEF RInv, CInv, TypeOK, StoreTypeOK, WorkPast, ProcessPast
  <2>2. RowAges
    BY ReviewRowAges
  <2> QED
    BY <2>1, <2>2, StoreAssumption DEF Row, Worker, Keys, RowAges
<1>1. CASE /\ UNCHANGED row
           /\ worker'["generation"].key = row.key => row.status \in Held
           /\ worker'["generation"].version = row.version
  BY <1>1
<1>2. CASE /\ w.pc \in {"claim", "work"}
           /\ worker'["generation"].key = w.key
           /\ worker'["generation"].version = w.version
  <2>1. w.key = row.key /\ row'.key = row.key
    BY <1>0, <1>2
  <2>2. row.status \in Held /\ w.version = row.version
    BY <1>2, <2>1 DEF GenerationKnows
  <2>3. row'.status \in Held /\ row'.version = row.version
    <3>1. ~Correction
      BY <2>2 DEF Correction, Held
    <3>2. ~GenerateWrite
      BY DEF GenerateWrite
    <3>3. CASE LifetimeWrite
      <4>1. row' # NewRow(row.key + 1)
        BY <1>0, <2>1 DEF NewRow
      <4> QED
        BY <1>0, <2>2, <3>3, <4>1 DEF LifetimeWrite, Row
    <3> QED
      BY <2>2, <3>1, <3>2, <3>3, ReviewNextWrites DEF Writes, StatusOnly
  <2> QED
    BY <1>2, <2>2, <2>3
<1> QED
  BY <1>1, <1>2, GenerationCopies

(* The step that makes an invoice READY stores a document of the version   *)
(* the row has, and the only one; nothing changes either afterwards.       *)
LEMMA ReviewNextLatest ==
    ASSUME RInv, DocumentsMatchStatus, NoRollbacks, GenerationKnows, LatestCorrectionGenerated,
           [ReviewNext]_allVars, Retriers = {}
    PROVE  LatestCorrectionGenerated'
<1> SUFFICES ASSUME row'.status = "READY"
             PROVE  \A i \in DOMAIN row'.documents : row'.documents[i].version = row'.version
  BY DEF LatestCorrectionGenerated
<1>0. row \in Row
  BY DEF RInv, CInv, TypeOK, StoreTypeOK
<1>1. CASE row.status = "READY" /\ row'.documents = row.documents /\ row'.version = row.version
  BY <1>1 DEF LatestCorrectionGenerated
<1>2. CASE GenerateWrite
  <2> DEFINE v == worker["generation"].version
             d == [version |-> v, valid |-> TRUE]
  <2>1. v = row.version /\ row'.version = row.version
    BY <1>2 DEF GenerateWrite, GenerationKnows
  <2>2. row.documents = <<>>
    BY <1>2 DEF GenerateWrite, DocumentsMatchStatus
  <2>3. row'.documents = Append(<<>>, d)
    BY <1>2, <2>2 DEF GenerateWrite
  <2>4. d.version = v
    OBVIOUS
  <2> HIDE DEF d, v
  <2>5. row'.documents = <<d>>
    BY <2>3
  <2> QED
    BY <2>1, <2>4, <2>5
<1>3. CASE LifetimeWrite
  <2>1. row' # NewRow(row.key + 1)
    BY DEF NewRow
  <2>2. row' = [row EXCEPT !.live = FALSE]
    BY <1>3, <2>1 DEF LifetimeWrite
  <2> QED
    BY <1>0, <1>1, <2>2 DEF Row
<1>4. CASE Correction
  BY <1>0, <1>4 DEF Correction, Row
<1>5. CASE UNCHANGED row \/ StatusOnly
  BY <1>1, <1>5 DEF StatusOnly
<1> QED
  BY <1>2, <1>3, <1>4, <1>5, ReviewNextWrites DEF Writes

(* At first nothing has been generated, and one job waits.                 *)
LEMMA ReviewInitLInv == ReviewInit => NoRollbacks /\ JobsPast /\ WorkPast
                                      /\ GenerationKnows /\ LatestCorrectionGenerated
<1> SUFFICES ASSUME ReviewInit
             PROVE  NoRollbacks /\ JobsPast /\ WorkPast
                    /\ GenerationKnows /\ LatestCorrectionGenerated
  OBVIOUS
<1>1. /\ row = [NewRow(1) EXCEPT !.status = ClaimFrom[FirstStage]]
      /\ job = [s \in Stages |-> [k \in Keys |->
                   IF s = FirstStage /\ k = 1 /\ s # "text-extraction" THEN FreshJob
                   ELSE NoJob]]
      /\ worker = Idle /\ completing = [k \in Keys |-> "none"] /\ boot = Booted("done")
      /\ reviewer = [u \in Reviewers |-> [pc |-> "idle", seen |-> Nothing, key |-> 1]]
      /\ \A u \in Retriers : retrier[u].key = 1
  BY DEF ReviewInit, Init, NoRetry
<1>2. row.key = 1 /\ row.documents = <<>>
  BY <1>1 DEF NewRow
<1>3. \A s \in Stages : worker[s].key = 1 /\ worker[s].pc = "idle"
  BY <1>1 DEF Idle, AtRest
<1>4. boot.key = 1 /\ boot.todo = {}
  BY <1>1 DEF Booted
<1>5. \A u \in Reviewers : reviewer[u].key = 1 /\ reviewer[u].pc = "idle"
  BY <1>1
<1>6. NoRollbacks
  BY <1>3, <1>5 DEF NoRollbacks
<1>7. JobsPast
  <2>1. ASSUME NEW s \in Stages, NEW k \in Keys, job[s][k].state # "none" PROVE k = 1
    <3>1. k = 1 \/ job[s][k] = NoJob
      BY <1>1
    <3> QED
      BY <2>1, <3>1 DEF NoJob
  <2> QED
    BY <1>2, <2>1 DEF JobsPast
<1>8. WorkPast
  <2>1. UploadsPast
    BY <1>2 DEF ReviewInit, Init, UploadsPast
  <2> QED
    BY <1>1, <1>2, <1>3, <1>4, <1>5, <2>1 DEF WorkPast, ProcessPast, RequestsPast
<1>9. GenerationKnows /\ LatestCorrectionGenerated
  BY <1>2, <1>3, StageFacts DEF GenerationKnows, LatestCorrectionGenerated
<1> QED
  BY <1>6, <1>7, <1>8, <1>9

(* While BullMQ takes what it is given and nobody retries a dead letter,   *)
(* the document of a READY invoice was generated from its last correction, *)
(* however reviewers, workers, crashes and startups interleave.            *)
THEOREM LatestCorrectionIsGenerated ==
    ASSUME Faults \subseteq {"listener"}, Retriers = {}
    PROVE  ReviewSpec => []LatestCorrectionGenerated
<1>1. ReviewInit => LInv
  BY ReviewInitLInv DEF LInv
<1>2. RInv /\ RInv' /\ DocumentsMatchStatus /\ LInv /\ [ReviewNext]_allVars => LInv'
  BY ReviewNextPast, ReviewNextNoRollbacks, ReviewNextKnows, ReviewNextLatest DEF LInv
<1>3. ReviewSpec => [](RInv /\ DocumentsMatchStatus)
  BY ReviewDocuments, PTL
<1>4. LInv => LatestCorrectionGenerated
  BY DEF LInv
<1> QED
  BY <1>1, <1>2, <1>3, <1>4, PTL DEF ReviewSpec
=============================================================================
