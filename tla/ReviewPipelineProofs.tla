-------------------------- MODULE ReviewPipelineProofs --------------------------
(***************************************************************************)
(* What holds while people correct and retry beside the pipeline, for any  *)
(* number of reviewers, retriers, corrections, retries, crashes and        *)
(* faults.  The steps of the pipeline are those of StagePipeline, so their *)
(* lemmas are used again; what is new are the writes of the requests and   *)
(* what a browser tab still shows.  Then, where no call to Redis fails:    *)
(* what can strand an invoice that is corrected, and that nothing strands  *)
(* one that a single person retries, nor loses its failure.                *)
(***************************************************************************)
EXTENDS ReviewPipeline, PipelineSafetyProofs, SequenceTheorems

PeopleOK ==
    /\ reviewer \in [Reviewers -> Reviewer]
    /\ retrier \in [Retriers -> Retrier]
    /\ retries \in Nat

(* The types need of the queues only what retries leave alone.             *)
RInv == CInv /\ PeopleOK

-------------------------------------------------------------------------------
(* The pipeline's own steps.                                               *)
PipelineStep == ProcessStep \/ Expire \/ UploadStep

(* They are steps of StagePipeline, and so is a crash.                     *)
LEMMA PipelineStepIsNext ==
    ASSUME PipelineStep \/ Crash PROVE Next
BY DEF PipelineStep, Next

(* Parking, too, writes the row in none of the ways that matter.           *)
LEMMA ParkRowStep ==
    ASSUME NEW s \in Stages, Park(s) PROVE RowStep
BY DEF Park, RowStep

(* A row with the token of a correction, or a reopened one, is a row.      *)
LEMMA CorrectsType ==
    ASSUME row \in Row, NEW u \in Reviewers, NEW to \in {"GENERATING", "NEEDS_REVIEW"},
           NEW findings \in {{}, {"rule"}}, Corrects(u, to, findings)
    PROVE  row' \in Row
<1>1. findings \in SUBSET {"rule", "mapping", "kosit"} /\ to \in Status /\ <<>> \in Seq(Document)
  BY EmptySeq DEF Status
<1>2. row.version + 1 \in Nat
  BY DEF Row
<1> QED
  BY <1>1, <1>2 DEF Corrects, Row

(* A request that leaves the working jobs alone keeps the bookkeeping of   *)
(* the workers.                                                            *)
LEMMA RequestKeepsCInv ==
    ASSUME CInv, row' \in Row, deadLetters' \in [Keys -> Seq(Stages)],
           budget' \in [crashes : Nat, faults : Nat], UNCHANGED process,
           job' \in JobTable,
           \A s \in Stages, k \in Keys :
               \/ job'[s][k] = job[s][k]
               \/ job[s][k].state \notin {"waiting", "active"} /\ job'[s][k] \in {NoJob, FreshJob}
    PROVE  CInv'
<1>1. TypeOK'
  BY DEF CInv, TypeOK, StoreTypeOK, process, JobTable
<1>2. \A s \in Stages : worker[s].key \in Keys
  BY DEF CInv, TypeOK, Worker
<1>3. NoJob.state = "none" /\ FreshJob.state = "waiting" /\ FreshJob.made = 0 /\ 0 < Attempts
  BY StoreAssumption DEF NoJob, FreshJob
<1>4. \A s \in Stages : worker'[s].pc # "idle" => job'[s][worker'[s].key].state = "active"
  BY <1>2 DEF CInv, WorkersAgree, process
<1>5. \A s \in Stages, k \in Keys :
          job'[s][k].state \in {"waiting", "active"} => job'[s][k].made < Attempts
  BY <1>3 DEF CInv, WorkersAgree
<1> QED
  BY <1>1, <1>4, <1>5 DEF CInv, WorkersAgree

(* The jobs that a request writes are such jobs.                           *)
LEMMA RequestJobs ==
    ASSUME CInv, NEW s \in Stages, NEW k \in Keys,
           \/ UNCHANGED job
           \/ Enqueue(s, k)
           \/ job' = (IF job[s][k].state = "failed" THEN [job EXCEPT ![s][k] = NoJob] ELSE job)
           \/ RepublishRetried(s, k)
    PROVE  /\ job' \in JobTable
           /\ \A r \in Stages, l \in Keys :
                  \/ job'[r][l] = job[r][l]
                  \/ /\ job[r][l].state \notin {"waiting", "active"}
                     /\ job'[r][l] \in {NoJob, FreshJob}
<1>1. job \in JobTable /\ NoJob \in Job /\ FreshJob \in Job
  BY StoreAssumption DEF CInv, TypeOK, StoreTypeOK, JobTable, Job, NoJob, FreshJob
<1>2. CASE UNCHANGED job
  BY <1>1, <1>2
<1>3. CASE Enqueue(s, k)
  BY <1>1, <1>3, EnqueuedFacts DEF Enqueue
<1>4. CASE /\ job[s][k].state = "failed"
           /\ job' = [job EXCEPT ![s][k] = NoJob]
  <2>1. /\ job' \in JobTable /\ job'[s][k] = NoJob
        /\ \A r \in Stages, l \in Keys : r # s \/ l # k => job'[r][l] = job[r][l]
    <3>1. NoJob \in Job /\ job \in JobTable /\ job' = [job EXCEPT ![s][k] = NoJob]
      BY <1>1, <1>4
    <3> QED
      BY <3>1 DEF JobTable
  <2>2. job[s][k].state \notin {"waiting", "active"}
    BY <1>4
  <2> QED
    BY <2>1, <2>2
<1>5. CASE /\ job[s][k].state \notin {"waiting", "active"}
           /\ job' = [job EXCEPT ![s][k] = FreshJob]
  <2>1. /\ job' \in JobTable /\ job'[s][k] = FreshJob
        /\ \A r \in Stages, l \in Keys : r # s \/ l # k => job'[r][l] = job[r][l]
    <3>1. FreshJob \in Job /\ job \in JobTable /\ job' = [job EXCEPT ![s][k] = FreshJob]
      BY <1>1, <1>5
    <3> QED
      BY <3>1 DEF JobTable
  <2>2. job[s][k].state \notin {"waiting", "active"}
    BY <1>5
  <2> QED
    BY <2>1, <2>2
<1> QED
  BY <1>2, <1>3, <1>4, <1>5 DEF RepublishRetried, WillRun

(* Removing an entry leaves a sequence of dead letters.                    *)
LEMMA WithoutType ==
    ASSUME NEW letters \in Seq(Stages), NEW s \in Stages,
           \E i \in DOMAIN letters : letters[i] = s
    PROVE  Without(letters, s) \in Seq(Stages)
<1> DEFINE pos == CHOOSE i \in DOMAIN letters : letters[i] = s
           n == Len(letters)
<1>1. n \in Nat /\ DOMAIN letters = 1 .. n /\ letters \in [1 .. n -> Stages]
  BY LenProperties
<1>2. pos \in 1 .. n
  BY <1>1
<1>3. Without(letters, s) = [i \in 1 .. n - 1 |-> IF i < pos THEN letters[i] ELSE letters[i + 1]]
  BY DEF Without
<1> HIDE DEF pos, n
<1>4. n - 1 \in Nat
  BY <1>1, <1>2
<1>5. Without(letters, s) \in [1 .. n - 1 -> Stages]
  BY <1>1, <1>3
<1> QED
  BY <1>4, <1>5, SeqDef

(* The steps of a reviewer's request.                                      *)
LEMMA ReviewerTypes ==
    ASSUME RInv, NEW u \in Reviewers, ReviewerStep(u) PROVE RInv'
<1> DEFINE Written(r) == reviewer' = [reviewer EXCEPT ![u] = r] /\ r \in Reviewer
<1>1. /\ row \in Row /\ row.key \in Keys /\ 1 \in Keys /\ reviewer[u] \in Reviewer
      /\ job \in JobTable /\ deadLetters \in [Keys -> Seq(Stages)]
      /\ budget \in [crashes : Nat, faults : Nat] /\ "generation" \in Stages
  BY StoreAssumption, StageFacts
     DEF RInv, CInv, TypeOK, StoreTypeOK, Row, PeopleOK, Keys, JobTable
<1>2. CASE OpenReview(u)
  <2>1. Written([reviewer[u] EXCEPT !.seen = row])
    BY <1>1, <1>2 DEF OpenReview, Reviewer
  <2>2. UNCHANGED vars /\ UNCHANGED <<retrier, retries>>
    BY <1>2 DEF OpenReview
  <2>3. CInv'
    BY <2>2, StutterKeeps DEF RInv, Keeps
  <2> QED
    BY <2>1, <2>2, <2>3 DEF RInv, PeopleOK
<1>3. CASE SubmitRefused(u)
  <2>1. Written([reviewer[u] EXCEPT !.seen = Nothing])
    BY <1>1, <1>3 DEF SubmitRefused, Reviewer
  <2>2. UNCHANGED vars /\ UNCHANGED <<retrier, retries>>
    BY <1>3 DEF SubmitRefused
  <2>3. CInv'
    BY <2>2, StutterKeeps DEF RInv, Keeps
  <2> QED
    BY <2>1, <2>2, <2>3 DEF RInv, PeopleOK
<1>4. CASE Submit(u)
  <2>1. row' \in Row
    BY <1>1, <1>4, CorrectsType DEF Submit
  <2>2. \/ Written([pc |-> "publish", seen |-> Nothing, key |-> row.key])
        \/ Written([reviewer[u] EXCEPT !.seen = row'])
    BY <1>1, <1>4, <2>1 DEF Submit, Reviewer
  <2>3. UNCHANGED <<job, deadLetters, process, budget, retrier, retries>>
    BY <1>4 DEF Submit
  <2>4. CInv'
    BY <1>1, <2>1, <2>3, RequestKeepsCInv DEF RInv
  <2> QED
    BY <2>2, <2>3, <2>4 DEF RInv, PeopleOK
<1>5. CASE EnqueueGeneration(u) \/ EnqueueGenerationFails(u) \/ ReturnToReview(u)
  <2>1. reviewer[u].key \in Keys
    BY <1>1 DEF Reviewer
  <2>2. row' \in Row
    BY <1>1, <1>5, TransitionType, StageFacts
       DEF EnqueueGeneration, EnqueueGenerationFails, ReturnToReview
  <2>3. UNCHANGED job \/ Enqueue("generation", reviewer[u].key)
    BY <1>5 DEF EnqueueGeneration, EnqueueGenerationFails, ReturnToReview
  <2>4. budget' \in [crashes : Nat, faults : Nat]
    BY <1>1, <1>5 DEF EnqueueGeneration, EnqueueGenerationFails, ReturnToReview, Fault
  <2>5. UNCHANGED <<deadLetters, process, retrier, retries>>
    BY <1>5 DEF EnqueueGeneration, EnqueueGenerationFails, ReturnToReview
  <2>6. CInv'
    <3>1. /\ job' \in JobTable
          /\ \A r \in Stages, l \in Keys :
                 \/ job'[r][l] = job[r][l]
                 \/ /\ job[r][l].state \notin {"waiting", "active"}
                    /\ job'[r][l] \in {NoJob, FreshJob}
      BY <1>1, <2>1, <2>3, RequestJobs DEF RInv
    <3> QED
      BY <1>1, <2>2, <2>4, <2>5, <3>1, RequestKeepsCInv DEF RInv
  <2>7. \/ Written([reviewer[u] EXCEPT !.pc = "rollback"])
        \/ Written([reviewer[u] EXCEPT !.pc = "idle", !.key = 1])
    BY <1>1, <1>5 DEF EnqueueGeneration, EnqueueGenerationFails, ReturnToReview, Reviewer
  <2> QED
    BY <2>5, <2>6, <2>7 DEF RInv, PeopleOK
<1> QED
  BY <1>2, <1>3, <1>4, <1>5 DEF ReviewerStep

(* The steps of a retrier's request.                                       *)
LEMMA RetrierTypes ==
    ASSUME RInv, NEW u \in Retriers, RetrierStep(u) PROVE RInv'
<1> DEFINE Written(r) == retrier' = [retrier EXCEPT ![u] = r] /\ r \in Retrier
           s == retrier[u].stage
           k == retrier[u].key
<1>1. /\ row \in Row /\ row.key \in Keys /\ retrier[u] \in Retrier
      /\ s \in Stages /\ k \in Keys
      /\ job \in JobTable /\ deadLetters \in [Keys -> Seq(Stages)]
      /\ budget \in [crashes : Nat, faults : Nat] /\ NoRetry \in Retrier
  BY StoreAssumption, StageFacts
     DEF RInv, CInv, TypeOK, StoreTypeOK, Row, PeopleOK, Keys, JobTable, Retrier, NoRetry
<1> HIDE DEF s, k
<1>2. CASE StartRetry(u)
  <2> DEFINE letters == deadLetters[row.key]
  <2>1. letters \in Seq(Stages) /\ letters # <<>>
    BY <1>1, <1>2 DEF StartRetry
  <2> HIDE DEF letters
  <2>2. letters[Len(letters)] \in Stages
    BY <2>1, LenProperties, EmptySeq
  <2>3. Written([pc |-> "clean", stage |-> letters[Len(letters)], key |-> row.key])
    BY <1>1, <1>2, <2>2 DEF StartRetry, Retrier, letters
  <2>4. UNCHANGED <<vars, reviewer>> /\ retries' = retries + 1
    BY <1>2 DEF StartRetry
  <2>5. CInv'
    BY <2>4, StutterKeeps DEF RInv, Keeps
  <2> QED
    BY <2>3, <2>4, <2>5 DEF RInv, PeopleOK
<1>3. CASE CleanFailedJob(u) \/ PublishRetry(u) \/ PublishRetryFails(u)
  <2>1. \/ UNCHANGED job
        \/ job' = (IF job[s][k].state = "failed" THEN [job EXCEPT ![s][k] = NoJob] ELSE job)
        \/ RepublishRetried(s, k)
    BY <1>3 DEF CleanFailedJob, PublishRetry, PublishRetryFails, s, k
  <2>2. UNCHANGED <<row, deadLetters, process, reviewer, retries>>
    BY <1>3 DEF CleanFailedJob, PublishRetry, PublishRetryFails
  <2>3. budget' \in [crashes : Nat, faults : Nat]
    BY <1>1, <1>3 DEF CleanFailedJob, PublishRetry, PublishRetryFails, Fault
  <2>4. \/ Written([retrier[u] EXCEPT !.pc = "reopen"])
        \/ Written([retrier[u] EXCEPT !.pc = "drop"])
        \/ Written(NoRetry)
    BY <1>1, <1>3 DEF CleanFailedJob, PublishRetry, PublishRetryFails, Retrier
  <2>5. CInv'
    <3>1. /\ job' \in JobTable
          /\ \A r \in Stages, l \in Keys :
                 \/ job'[r][l] = job[r][l]
                 \/ /\ job[r][l].state \notin {"waiting", "active"}
                    /\ job'[r][l] \in {NoJob, FreshJob}
      BY <1>1, <2>1, RequestJobs DEF RInv
    <3> QED
      BY <1>1, <2>2, <2>3, <3>1, RequestKeepsCInv DEF RInv
  <2> QED
    BY <2>2, <2>4, <2>5 DEF RInv, PeopleOK
<1>4. CASE Reopen(u)
  <2>1. ReopenTo[s] \in Status
    BY <1>1 DEF ReopenTo, ClaimFrom, ClaimTo, Stages, Status
  <2>2. row' \in Row
    BY <1>1, <1>4, <2>1 DEF Reopen, Row, s
  <2>3. UNCHANGED <<job, deadLetters, process, budget, reviewer, retries>>
    BY <1>4 DEF Reopen
  <2>4. \/ Written([retrier[u] EXCEPT !.pc = "publish"])
        \/ Written([retrier[u] EXCEPT !.pc = "drop"])
    BY <1>1, <1>4 DEF Reopen, Retrier
  <2>5. CInv'
    BY <1>1, <2>2, <2>3, RequestKeepsCInv DEF RInv
  <2> QED
    BY <2>3, <2>4, <2>5 DEF RInv, PeopleOK
<1>5. CASE DropDeadLetter(u)
  <2>1. deadLetters' \in [Keys -> Seq(Stages)]
    <3>1. CASE HasDeadLetter(s, k)
      <4>1. Without(deadLetters[k], s) \in Seq(Stages)
        BY <1>1, <3>1, WithoutType DEF HasDeadLetter
      <4>2. deadLetters' = [deadLetters EXCEPT ![k] = Without(deadLetters[k], s)]
        BY <1>5, <3>1 DEF DropDeadLetter, s, k
      <4> QED
        BY <1>1, <4>1, <4>2
    <3>2. CASE ~HasDeadLetter(s, k)
      BY <1>1, <1>5, <3>2 DEF DropDeadLetter, s, k
    <3> QED
      BY <3>1, <3>2
  <2>2. UNCHANGED <<row, job, process, budget, reviewer, retries>> /\ Written(NoRetry)
    BY <1>1, <1>5 DEF DropDeadLetter
  <2>3. CInv'
    BY <1>1, <2>1, <2>2, RequestKeepsCInv DEF RInv
  <2> QED
    BY <2>2, <2>3 DEF RInv, PeopleOK
<1> QED
  BY <1>2, <1>3, <1>4, <1>5 DEF RetrierStep

(* The initial states satisfy RInv.                                        *)
LEMMA ReviewInitRInv == ReviewInit => RInv
<1> SUFFICES ASSUME ReviewInit PROVE RInv
  OBVIOUS
<1>1. CInv
  BY InitIInv, IInvParts DEF ReviewInit
<1>2. 1 \in Keys /\ "generation" \in Stages
  BY StoreAssumption, StageFacts DEF Keys
<1> QED
  BY <1>1, <1>2 DEF ReviewInit, RInv, PeopleOK, Reviewer, Retrier, NoRetry

(* Every step keeps it.                                                    *)
LEMMA ReviewNextRInv == RInv /\ [ReviewNext]_allVars => RInv'
<1> SUFFICES ASSUME RInv, [ReviewNext]_allVars PROVE RInv'
  OBVIOUS
<1>1. CASE PipelineStep /\ UNCHANGED people
  BY <1>1, PipelineStepIsNext, NextKeeps DEF RInv, PeopleOK, people, Keeps
<1>2. CASE \E s \in Stages : Park(s) /\ UNCHANGED people
  BY <1>2, ParkKeeps DEF RInv, PeopleOK, people, Keeps
<1>3. CASE Crash /\ RequestsDie
  <2>1. CInv'
    BY <1>3, PipelineStepIsNext, NextKeeps DEF RInv, Keeps
  <2>2. 1 \in Keys /\ "generation" \in Stages
    BY StoreAssumption, StageFacts DEF Keys
  <2>3. \A u \in Reviewers : [reviewer[u] EXCEPT !.pc = "idle", !.key = 1] \in Reviewer
    BY <2>2 DEF RInv, PeopleOK, Reviewer
  <2>4. PeopleOK'
    BY <1>3, <2>2, <2>3 DEF RInv, PeopleOK, RequestsDie, Retrier, NoRetry
  <2> QED
    BY <2>1, <2>4 DEF RInv
<1>4. CASE \E u \in Reviewers : ReviewerStep(u)
  BY <1>4, ReviewerTypes
<1>5. CASE \E u \in Retriers : RetrierStep(u)
  BY <1>5, RetrierTypes
<1>6. CASE UNCHANGED allVars
  BY <1>6, StutterKeeps DEF RInv, PeopleOK, allVars, people, Keeps
<1> QED
  BY <1>1, <1>2, <1>3, <1>4, <1>5, <1>6 DEF ReviewNext, PipelineStep

(* The pipeline and the requests beside it keep to their types; a job      *)
(* never has more attempts than it was given, even one that is retried.    *)
THEOREM ReviewTypes == ReviewSpec => []ReviewTypeOK
<1>1. RInv => ReviewTypeOK
  BY DEF RInv, CInv, PeopleOK, ReviewTypeOK
<1>2. ReviewSpec => []RInv
  BY ReviewInitRInv, ReviewNextRInv, PTL DEF ReviewSpec
<1> QED
  BY <1>1, <1>2, PTL

-------------------------------------------------------------------------------
(* What the requests write in the row.                                     *)

Correction ==
    /\ row.live /\ row.status = "NEEDS_REVIEW"
    /\ \E to \in {"GENERATING", "NEEDS_REVIEW"} :
           row' = [row EXCEPT !.status = to, !.version = @ + 1,
                              !.findings = IF to = "GENERATING" THEN {} ELSE {"rule"},
                              !.documents = <<>>]

Return == Transition(row.key, "GENERATING", "NEEDS_REVIEW")

Reopening ==
    /\ row.live /\ row.status = "FAILED"
    /\ \E s \in Stages : row' = [row EXCEPT !.status = ReopenTo[s], !.failure = "none"]

(* Beside the pipeline there are three guarded writes more.                *)
LEMMA ReviewRowStep ==
    ASSUME RInv, [ReviewNext]_allVars
    PROVE  RowStep \/ Correction \/ Return \/ Reopening
<1>0. TypeOK
  BY DEF RInv, CInv
<1>1. CASE PipelineStep \/ Crash
  BY <1>0, <1>1, PipelineStepIsNext, NextRowStep
<1>2. CASE \E s \in Stages : Park(s)
  BY <1>2, ParkRowStep
<1>3. ASSUME NEW u \in Reviewers, ReviewerStep(u)
      PROVE  RowStep \/ Correction \/ Return
  <2>1. CASE OpenReview(u) \/ SubmitRefused(u) \/ EnqueueGeneration(u) \/ EnqueueGenerationFails(u)
    BY <2>1 DEF OpenReview, SubmitRefused, EnqueueGeneration, EnqueueGenerationFails, vars,
                store, RowStep
  <2>2. CASE Submit(u)
    BY <2>2 DEF Submit, Corrects, Holds, Correction
  <2>3. CASE ReturnToReview(u)
    BY <2>3 DEF ReturnToReview, Transition, Holds, Return, RowStep
  <2> QED
    BY <1>3, <2>1, <2>2, <2>3 DEF ReviewerStep
<1>4. ASSUME NEW u \in Retriers, RetrierStep(u)
      PROVE  RowStep \/ Reopening
  <2>1. CASE StartRetry(u) \/ CleanFailedJob(u) \/ PublishRetry(u) \/ PublishRetryFails(u)
             \/ DropDeadLetter(u)
    BY <2>1 DEF StartRetry, CleanFailedJob, PublishRetry, PublishRetryFails, DropDeadLetter, vars,
                store, RowStep
  <2>2. CASE Reopen(u)
    <3>1. retrier[u].stage \in Stages
      BY DEF RInv, PeopleOK, Retrier
    <3> QED
      BY <2>2, <3>1 DEF Reopen, Holds, Reopening, RowStep
  <2> QED
    BY <1>4, <2>1, <2>2 DEF RetrierStep
<1>5. CASE UNCHANGED allVars
  BY <1>5 DEF allVars, vars, store, RowStep
<1> QED
  BY <1>1, <1>2, <1>3, <1>4, <1>5 DEF ReviewNext, PipelineStep

-------------------------------------------------------------------------------
(* A correction and what its author saw.                                   *)

(* What a tab shows is the row itself, once expired perhaps, or one of an  *)
(* earlier version or an earlier lifecycle.                                *)
SeenKnows ==
    \A u \in Reviewers :
        LET seen == reviewer[u].seen
        IN  /\ seen.key <= row.key
            /\ seen.key = row.key => seen.version <= row.version
            /\ seen.key = row.key /\ seen.version = row.version =>
                   seen = [row EXCEPT !.live = TRUE] /\ row.status = "NEEDS_REVIEW"

(* A row in review leaves it with a new version or a new key, or dead; its *)
(* version and key never fall.                                             *)
RowAges ==
    /\ row'.key >= row.key
    /\ row'.key = row.key => row'.version >= row.version
    /\ row'.key = row.key /\ row'.version = row.version /\ row.status = "NEEDS_REVIEW" =>
           row' = row \/ row' = [row EXCEPT !.live = FALSE]

(* The pipeline's writes age the row so.                                   *)
LEMMA RowStepAges ==
    ASSUME row \in Row, RowStep
    PROVE  RowAges
<1>0. row.key \in Nat /\ row.version \in Nat
  BY StoreAssumption DEF Row, Keys
<1>1. CASE UNCHANGED row
  BY <1>0, <1>1 DEF RowAges
<1>2. CASE StatusWrite
  <2>1. row'.key = row.key /\ row'.version = row.version /\ row.status # "NEEDS_REVIEW"
    <3>1. ASSUME NEW from \in Status \ {"NEEDS_REVIEW"}, NEW to,
                 Transition(row.key, from, to)
          PROVE  row'.key = row.key /\ row'.version = row.version /\ row.status # "NEEDS_REVIEW"
      BY <3>1 DEF Transition, Holds, Row
    <3>2. \A s \in Stages : ClaimFrom[s] \in Status \ {"NEEDS_REVIEW"}
                            /\ ClaimTo[s] \in Status \ {"NEEDS_REVIEW"}
      BY DEF Stages, Status, ClaimFrom, ClaimTo
    <3>3. \A s \in Publishers : s \in Stages /\ NextStage[s] \in Stages
      BY StageFacts
    <3>4. ASSUME NEW s \in Stages, TransitionToFailed(row.key, ClaimTo[s]) \/ Fails(s)
          PROVE  row'.key = row.key /\ row'.version = row.version /\ row.status # "NEEDS_REVIEW"
      BY <3>2, <3>4 DEF TransitionToFailed, Fails, FailsIrrecoverably, InFlight, Holds, Row
    <3>5. Extractors \subseteq Stages
      BY DEF Extractors, Stages
    <3> QED
      BY <1>2, <3>1, <3>2, <3>3, <3>4, <3>5 DEF StatusWrite
  <2> QED
    BY <1>0, <2>1 DEF RowAges
<1>3. CASE VerdictWrite
  <2>1. row'.key = row.key /\ row'.version = row.version /\ row.status # "NEEDS_REVIEW"
    BY <1>3 DEF VerdictWrite, CompleteValidation, RejectGeneration, CompleteGeneration, Holds, Row
  <2> QED
    BY <1>0, <2>1 DEF RowAges
<1>4. CASE LifetimeWrite
  BY <1>0, <1>4 DEF LifetimeWrite, NewRow, RowAges, Row
<1> QED
  BY <1>1, <1>2, <1>3, <1>4 DEF RowStep

(* The pipeline never raises a version; only an upload begins again at 0.  *)
LEMMA RowStepVersion ==
    ASSUME row \in Row, RowStep
    PROVE  row'.version \in {row.version, 0}
<1>1. ASSUME NEW from, NEW to, Transition(row.key, from, to)
      PROVE  row'.version = row.version
  BY <1>1 DEF Transition, Holds, Row
<1>2. ASSUME NEW s, TransitionToFailed(row.key, ClaimTo[s]) \/ Fails(s)
      PROVE  row'.version = row.version
  BY <1>2 DEF TransitionToFailed, Fails, FailsIrrecoverably, Holds, Row
<1>3. CASE StatusWrite
  BY <1>1, <1>2, <1>3 DEF StatusWrite
<1>4. CASE VerdictWrite
  BY <1>4 DEF VerdictWrite, CompleteValidation, RejectGeneration, CompleteGeneration, Holds, Row
<1>5. CASE LifetimeWrite
  BY <1>5 DEF LifetimeWrite, NewRow, Row
<1> QED
  BY <1>3, <1>4, <1>5 DEF RowStep

(* So do the writes of the requests.                                       *)
LEMMA ReviewRowAges ==
    ASSUME RInv, [ReviewNext]_allVars
    PROVE  RowAges
<1>0. row \in Row
  BY DEF RInv, CInv, TypeOK, StoreTypeOK
<1>1. row.key \in Nat /\ row.version \in Nat
  BY <1>0, StoreAssumption DEF Row, Keys
<1>2. CASE Correction
  <2>1. row'.key = row.key /\ row'.version = row.version + 1
    BY <1>0, <1>2 DEF Correction, Row
  <2> QED
    BY <1>1, <2>1 DEF RowAges
<1>3. CASE Return \/ Reopening
  <2>1. row'.key = row.key /\ row'.version = row.version /\ row.status # "NEEDS_REVIEW"
    BY <1>0, <1>3 DEF Return, Transition, Holds, Reopening, Row
  <2> QED
    BY <1>1, <2>1 DEF RowAges
<1> QED
  BY <1>0, <1>2, <1>3, ReviewRowStep, RowStepAges

(* While the tabs show what they showed, their knowledge ages with it.     *)
LEMMA SeenAges ==
    ASSUME RInv, RInv', SeenKnows, RowAges, NEW u \in Reviewers,
           reviewer'[u].seen = reviewer[u].seen
    PROVE  LET seen == reviewer'[u].seen
           IN  /\ seen.key <= row'.key
               /\ seen.key = row'.key => seen.version <= row'.version
               /\ seen.key = row'.key /\ seen.version = row'.version =>
                      seen = [row' EXCEPT !.live = TRUE] /\ row'.status = "NEEDS_REVIEW"
<1> DEFINE seen == reviewer[u].seen
<1>1. /\ row \in Row /\ row' \in Row /\ seen \in Row \cup {Nothing}
  BY DEF RInv, CInv, TypeOK, StoreTypeOK, PeopleOK, Reviewer
<1>2. /\ row.key \in Nat /\ row.version \in Nat /\ row'.key \in Nat /\ row'.version \in Nat
      /\ seen.key \in Nat /\ seen.version \in Nat
  <2>1. \A r \in Row : r.key \in Nat /\ r.version \in Nat
    BY StoreAssumption DEF Row, Keys
  <2>2. Nothing.key = 0 /\ Nothing.version = 0
    BY DEF Nothing, NewRow
  <2> QED
    BY <1>1, <2>1, <2>2
<1>3. /\ seen.key <= row.key
      /\ seen.key = row.key => seen.version <= row.version
      /\ seen.key = row.key /\ seen.version = row.version =>
             seen = [row EXCEPT !.live = TRUE] /\ row.status = "NEEDS_REVIEW"
  BY DEF SeenKnows
<1> HIDE DEF seen
<1>4. seen.key <= row'.key /\ (seen.key = row'.key => seen.version <= row'.version)
  BY <1>2, <1>3 DEF RowAges
<1>5. ASSUME seen.key = row'.key, seen.version = row'.version
      PROVE  seen = [row' EXCEPT !.live = TRUE] /\ row'.status = "NEEDS_REVIEW"
  <2>1. row'.key = row.key /\ row'.version = row.version
    BY <1>2, <1>3, <1>5 DEF RowAges
  <2>2. seen = [row EXCEPT !.live = TRUE] /\ row.status = "NEEDS_REVIEW"
    BY <1>3, <1>5, <2>1
  <2>3. row' = row \/ row' = [row EXCEPT !.live = FALSE]
    BY <2>1, <2>2 DEF RowAges
  <2> QED
    BY <1>1, <2>2, <2>3 DEF Row
<1> QED
  BY <1>4, <1>5 DEF seen

(* A tab that is given the row, or nothing, knows what it shows.           *)
LEMMA SeenFresh ==
    ASSUME RInv', NEW u \in Reviewers,
           \/ reviewer'[u].seen = Nothing
           \/ reviewer'[u].seen = row' /\ row'.live /\ row'.status = "NEEDS_REVIEW"
    PROVE  LET seen == reviewer'[u].seen
           IN  /\ seen.key <= row'.key
               /\ seen.key = row'.key => seen.version <= row'.version
               /\ seen.key = row'.key /\ seen.version = row'.version =>
                      seen = [row' EXCEPT !.live = TRUE] /\ row'.status = "NEEDS_REVIEW"
<1>1. row' \in Row
  BY DEF RInv, CInv, TypeOK, StoreTypeOK
<1>2. row'.key \in Nat \ {0} /\ row'.version \in Nat
  BY <1>1, StoreAssumption DEF Row, Keys
<1>3. CASE reviewer'[u].seen = Nothing
  <2>1. Nothing.key = 0
    BY DEF Nothing, NewRow
  <2> QED
    BY <1>2, <1>3, <2>1
<1>4. CASE reviewer'[u].seen = row' /\ row'.live /\ row'.status = "NEEDS_REVIEW"
  BY <1>1, <1>2, <1>4 DEF Row
<1> QED
  BY <1>3, <1>4

(* Every tab keeps what it shows or is given something new.                *)
LEMMA ReviewNextSeen ==
    ASSUME RInv, [ReviewNext]_allVars, NEW u \in Reviewers
    PROVE  \/ reviewer'[u].seen = reviewer[u].seen
           \/ reviewer'[u].seen = Nothing
           \/ reviewer'[u].seen = row' /\ row'.live /\ row'.status = "NEEDS_REVIEW"
<1>1. reviewer \in [Reviewers -> Reviewer] /\ row \in Row
  BY DEF RInv, CInv, TypeOK, StoreTypeOK, PeopleOK
<1>2. CASE UNCHANGED reviewer
  BY <1>2
<1>3. CASE RequestsDie
  BY <1>1, <1>3 DEF RequestsDie, Reviewer
<1>4. ASSUME NEW v \in Reviewers, ReviewerStep(v)
      PROVE  \/ reviewer'[u].seen = reviewer[u].seen
             \/ reviewer'[u].seen = Nothing
             \/ reviewer'[u].seen = row' /\ row'.live /\ row'.status = "NEEDS_REVIEW"
  <2>1. CASE OpenReview(v)
    BY <1>1, <2>1 DEF OpenReview, Reviewer, vars, store
  <2>2. CASE Submit(v)
    <3>1. CASE reviewer' = [reviewer EXCEPT
                   ![v] = [pc |-> "publish", seen |-> Nothing, key |-> row.key]]
      BY <1>1, <3>1
    <3>2. CASE /\ Corrects(v, "NEEDS_REVIEW", {"rule"})
               /\ reviewer' = [reviewer EXCEPT ![v].seen = row']
      <4>1. row'.live /\ row'.status = "NEEDS_REVIEW"
        BY <1>1, <3>2 DEF Corrects, Holds, Row
      <4>2. reviewer'[u].seen = reviewer[u].seen \/ reviewer'[u].seen = row'
        BY <1>1, <3>2 DEF Reviewer
      <4> QED
        BY <4>1, <4>2
    <3> QED
      BY <2>2, <3>1, <3>2 DEF Submit
  <2>3. CASE SubmitRefused(v)
    BY <1>1, <2>3 DEF SubmitRefused, Reviewer
  <2>4. CASE EnqueueGeneration(v) \/ EnqueueGenerationFails(v) \/ ReturnToReview(v)
    BY <1>1, <2>4 DEF EnqueueGeneration, EnqueueGenerationFails, ReturnToReview, Reviewer
  <2> QED
    BY <1>4, <2>1, <2>2, <2>3, <2>4 DEF ReviewerStep
<1>5. ASSUME NEW v \in Retriers, RetrierStep(v) PROVE UNCHANGED reviewer
  BY <1>5 DEF RetrierStep, StartRetry, CleanFailedJob, Reopen, PublishRetry, PublishRetryFails,
              DropDeadLetter
<1> QED
  BY <1>2, <1>3, <1>4, <1>5 DEF ReviewNext, allVars, people

(* Together with the types this is inductive.                              *)
LEMMA ReviewNextSeenKnows ==
    RInv /\ RInv' /\ SeenKnows /\ [ReviewNext]_allVars => SeenKnows'
<1> SUFFICES ASSUME RInv, RInv', SeenKnows, [ReviewNext]_allVars, NEW u \in Reviewers
             PROVE  LET seen == reviewer'[u].seen
                    IN  /\ seen.key <= row'.key
                        /\ seen.key = row'.key => seen.version <= row'.version
                        /\ seen.key = row'.key /\ seen.version = row'.version =>
                               seen = [row' EXCEPT !.live = TRUE] /\ row'.status = "NEEDS_REVIEW"
  BY DEF SeenKnows
<1>1. RowAges
  BY ReviewRowAges
<1>2. \/ reviewer'[u].seen = reviewer[u].seen
      \/ reviewer'[u].seen = Nothing
      \/ reviewer'[u].seen = row' /\ row'.live /\ row'.status = "NEEDS_REVIEW"
  BY ReviewNextSeen
<1>3. CASE reviewer'[u].seen = reviewer[u].seen
  BY <1>1, <1>3, SeenAges
<1>4. CASE reviewer'[u].seen # reviewer[u].seen
  BY <1>2, <1>4, SeenFresh
<1> QED
  BY <1>3, <1>4

(* At first nobody has seen anything.                                      *)
LEMMA ReviewInitSeenKnows == ReviewInit => SeenKnows
<1> SUFFICES ASSUME ReviewInit PROVE SeenKnows
  OBVIOUS
<1>1. Nothing.key = 0 /\ row.key = 1
  BY DEF ReviewInit, Init, NewRow, Nothing
<1> QED
  BY <1>1 DEF ReviewInit, SeenKnows

(* The step of a correction.                                               *)
CorrectsSeen ==
    \A u \in Reviewers :
        row'.version > row.version /\ reviewer'[u] # reviewer[u] => reviewer[u].seen = row

(* However many people correct an invoice while its pipeline runs, crashes *)
(* and is renewed: a correction is stored only over the row its author was *)
(* shown.                                                                  *)
THEOREM CorrectionsAreOfWhatWasSeen == ReviewSpec => CorrectsWhatWasSeen
<1>1. RInv /\ SeenKnows /\ [ReviewNext]_allVars => [CorrectsSeen]_allVars
  <2> SUFFICES ASSUME RInv, SeenKnows, [ReviewNext]_allVars, NEW u \in Reviewers,
                      row'.version > row.version, reviewer'[u] # reviewer[u]
               PROVE  reviewer[u].seen = row
    BY DEF CorrectsSeen
  <2>1. reviewer \in [Reviewers -> Reviewer] /\ row \in Row /\ row.version \in Nat
    BY DEF RInv, CInv, TypeOK, StoreTypeOK, PeopleOK, Row
  <2>2. Correction
    <3>1. CASE RowStep
      <4>1. row'.version \in {row.version, 0}
        BY <2>1, <3>1, RowStepVersion
      <4> QED
        BY <2>1, <4>1
    <3>2. CASE Return \/ Reopening
      <4>1. row'.version = row.version
        BY <2>1, <3>2 DEF Return, Transition, Holds, Reopening, Row
      <4> QED
        BY <2>1, <4>1
    <3> QED
      BY <3>1, <3>2, ReviewRowStep
  <2>3. PICK v \in Reviewers : ReviewerStep(v)
    <3>1. ~(PipelineStep /\ UNCHANGED people)
          /\ ~(\E s \in Stages : Park(s) /\ UNCHANGED people) /\ ~UNCHANGED allVars
      BY DEF people, allVars
    <3>2. ~Crash /\ ~(\E w \in Retriers : RetrierStep(w))
      <4>1. ASSUME NEW w \in Retriers, RetrierStep(w) PROVE UNCHANGED reviewer
        BY <4>1 DEF RetrierStep, StartRetry, CleanFailedJob, Reopen, PublishRetry,
                    PublishRetryFails, DropDeadLetter
      <4>2. ~Crash
        BY <2>1 DEF Crash, store
      <4> QED
        BY <4>1, <4>2
    <3> QED
      BY <3>1, <3>2 DEF ReviewNext, PipelineStep
  <2>4. Submit(v)
    <3>1. row' # row
      BY <2>1
    <3>2. ~ReturnToReview(v)
      BY <2>1 DEF ReturnToReview, Transition, Row
    <3> QED
      BY <2>3, <3>1, <3>2 DEF ReviewerStep, OpenReview, SubmitRefused, EnqueueGeneration,
                              EnqueueGenerationFails, vars, store
  <2>5. v = u
    BY <2>1, <2>4 DEF Submit
  <2>6. Tokenised(reviewer[u].seen) = Tokenised(row) /\ row.live
    BY <2>4, <2>5 DEF Submit, Corrects, Holds
  <2>7. reviewer[u].seen.key = row.key /\ reviewer[u].seen.version = row.version
    BY <2>6 DEF Tokenised
  <2> QED
    BY <2>1, <2>6, <2>7, ZenonT(60) DEF SeenKnows, Row
<1>2. ReviewSpec => [](RInv /\ SeenKnows)
  BY ReviewInitRInv, ReviewNextRInv, ReviewInitSeenKnows, ReviewNextSeenKnows, PTL
     DEF ReviewSpec
<1> QED
  BY <1>1, <1>2, PTL DEF ReviewSpec, CorrectsWhatWasSeen, CorrectsSeen


-------------------------------------------------------------------------------
(* Documents, findings and the promise.                                    *)

(* A finding that blocks is only ever on an invoice in review: with it, a  *)
(* retry cannot bring one back into the generation.                        *)
FindingsInReview == row.findings # {} => row.status = "NEEDS_REVIEW"

(* The pipeline's writes keep it.                                          *)
LEMMA RowStepKeepsFindings ==
    ASSUME row \in Row, FindingsInReview, RowStep
    PROVE  FindingsInReview'
<1>1. \A s \in Stages : ClaimFrom[s] # "NEEDS_REVIEW" /\ ClaimTo[s] # "NEEDS_REVIEW"
  BY DEF Stages, ClaimFrom, ClaimTo
<1>2. \A s \in Publishers : s \in Stages /\ NextStage[s] \in Stages
  BY StageFacts
<1>3. ASSUME NEW from, from # "NEEDS_REVIEW", NEW to, Transition(row.key, from, to)
      PROVE  FindingsInReview'
  BY <1>3 DEF Transition, Holds, Row, FindingsInReview
<1>4. ASSUME NEW s \in Stages, TransitionToFailed(row.key, ClaimTo[s]) \/ Fails(s)
      PROVE  FindingsInReview'
  BY <1>1, <1>4 DEF TransitionToFailed, Fails, FailsIrrecoverably, InFlight, Holds, Row,
                    FindingsInReview
<1>5. CASE StatusWrite
  <2>1. Extractors \subseteq Stages
    BY DEF Extractors, Stages
  <2> QED
    BY <1>1, <1>2, <1>3, <1>4, <1>5, <2>1 DEF StatusWrite
<1>6. CASE VerdictWrite
  <2>1. ASSUME NEW to, NEW findings, CompleteValidation(row.key, to, findings),
               findings # {} => to = "NEEDS_REVIEW"
        PROVE  FindingsInReview'
    BY <2>1 DEF CompleteValidation, Row, FindingsInReview
  <2>2. CASE RejectGeneration(row.key)
    BY <2>2 DEF RejectGeneration, Row, FindingsInReview
  <2>3. ASSUME NEW version \in Nat, NEW valid \in BOOLEAN,
               CompleteGeneration(row.key, version, valid)
        PROVE  FindingsInReview'
    <3>1. row.status = "GENERATING_DOCUMENT"
      BY <2>3 DEF CompleteGeneration, Holds
    <3>2. row'.findings # {} => row'.status = "NEEDS_REVIEW"
      BY <2>3, <3>1 DEF CompleteGeneration, Row, FindingsInReview
    <3> QED
      BY <3>2 DEF FindingsInReview
  <2> QED
    BY <1>6, <2>1, <2>2, <2>3 DEF VerdictWrite
<1>7. CASE LifetimeWrite
  BY <1>7 DEF LifetimeWrite, NewRow, Row, FindingsInReview
<1>8. CASE UNCHANGED row
  BY <1>8 DEF FindingsInReview
<1> QED
  BY <1>5, <1>6, <1>7, <1>8 DEF RowStep

(* What a correction, a return to review and a retry leave behind fits     *)
(* together, too.                                                          *)
LEMMA ReviewNextDocuments ==
    RInv /\ DocumentsMatchStatus /\ FindingsInReview /\ [ReviewNext]_allVars =>
        DocumentsMatchStatus' /\ FindingsInReview'
<1> SUFFICES ASSUME RInv, DocumentsMatchStatus, FindingsInReview, [ReviewNext]_allVars
             PROVE  DocumentsMatchStatus' /\ FindingsInReview'
  OBVIOUS
<1>0. TypeOK /\ row \in Row
  BY DEF RInv, CInv, TypeOK, StoreTypeOK
<1>1. CASE RowStep
  BY <1>0, <1>1, RowStepKeepsDocuments, RowStepKeepsFindings
<1>2. CASE Correction
  <2>1. Len(<<>>) = 0 /\ DOMAIN <<>> = {}
    OBVIOUS
  <2> QED
    BY <1>0, <1>2, <2>1 DEF Correction, Row, DocumentsMatchStatus, FindingsInReview
<1>3. CASE Return
  BY <1>0, <1>3 DEF Return, Transition, Holds, Row, DocumentsMatchStatus, FindingsInReview
<1>4. CASE Reopening
  <2>1. PICK s \in Stages : row' = [row EXCEPT !.status = ReopenTo[s], !.failure = "none"]
    BY <1>4 DEF Reopening
  <2>2. ReopenTo[s] \notin {"READY", "NEEDS_REVIEW", "FAILED"}
    BY DEF ReopenTo, ClaimFrom, ClaimTo, Stages
  <2>3. row.status = "FAILED" /\ row.findings = {}
    BY <1>4 DEF Reopening, FindingsInReview
  <2>4. row'.status = ReopenTo[s] /\ row'.documents = row.documents /\ row'.findings = {}
    BY <1>0, <2>1, <2>3 DEF Row
  <2> QED
    BY <2>2, <2>3, <2>4 DEF DocumentsMatchStatus, FindingsInReview
<1> QED
  BY <1>1, <1>2, <1>3, <1>4, ReviewRowStep

(* The invariant that holds beside all requests.                           *)
LEMMA ReviewDocuments == ReviewSpec => [](RInv /\ DocumentsMatchStatus /\ FindingsInReview)
<1>1. ReviewInit => DocumentsMatchStatus /\ FindingsInReview
  BY PipelineAssumption
     DEF ReviewInit, Init, NewRow, DocumentsMatchStatus, FindingsInReview, ClaimFrom, Stages
<1> QED
  BY <1>1, ReviewInitRInv, ReviewNextRInv, ReviewNextDocuments, PTL DEF ReviewSpec

(* However corrections, retries and rolled back requests run between the   *)
(* stages: one document at most, valid exactly when the invoice is READY.  *)
THEOREM ReviewKeepsDocuments == ReviewSpec => []DocumentsMatchStatus
BY ReviewDocuments, PTL

(* A reviewed or retried invoice still lives the promised lifecycle.       *)
LEMMA ReviewKeepsPromise ==
    RInv /\ DocumentsMatchStatus /\ [ReviewNext]_allVars => [Promise!Next]_Promise!vars
<1> SUFFICES ASSUME RInv, DocumentsMatchStatus, [ReviewNext]_allVars
             PROVE  [Promise!Next]_Promise!vars
  OBVIOUS
<1>0. TypeOK /\ row \in Row
  BY DEF RInv, CInv, TypeOK, StoreTypeOK
<1>1. CASE RowStep
  BY <1>0, <1>1, RowStepKeepsPromise
<1>2. CASE Correction
  <2>1. /\ row.live /\ row.status = "NEEDS_REVIEW"
        /\ row'.key = row.key /\ row'.live = row.live /\ row'.version = row.version + 1
        /\ row'.status \in {"NEEDS_REVIEW", "GENERATING"} /\ row'.documents = <<>>
    BY <1>0, <1>2 DEF Correction, Row
  <2> QED
    BY <2>1 DEF Promise!Next, Promise!Correct
<1>3. CASE Return
  <2>1. /\ row.live /\ row.status = "GENERATING" /\ row'.status = "NEEDS_REVIEW"
        /\ row'.key = row.key /\ row'.live = row.live /\ row'.version = row.version
        /\ row'.documents = row.documents
    BY <1>0, <1>3 DEF Return, Transition, Holds, Row
  <2>2. <<row.status, row'.status>> \in Promise!LegalTransitions
    BY <2>1 DEF Promise!LegalTransitions
  <2> QED
    BY <2>1, <2>2, AdvanceStep
<1>4. CASE Reopening
  <2>1. PICK s \in Stages : row' = [row EXCEPT !.status = ReopenTo[s], !.failure = "none"]
    BY <1>4 DEF Reopening
  <2>2. /\ row.live /\ row.status = "FAILED" /\ row'.status = ReopenTo[s]
        /\ row'.key = row.key /\ row'.live = row.live /\ row'.version = row.version
        /\ row'.documents = row.documents
    BY <1>0, <1>4, <2>1 DEF Reopening, Row
  <2>3. ReopenTo[s] \in {"EXTRACTING_TEXT", "EXTRACTING_DATA", "VALIDATING", "GENERATING"}
    BY DEF ReopenTo, ClaimFrom, ClaimTo, Stages
  <2>4. <<row.status, row'.status>> \in Promise!LegalTransitions
    BY <2>2, <2>3 DEF Promise!LegalTransitions
  <2> QED
    BY <2>2, <2>4, AdvanceStep
<1> QED
  BY <1>1, <1>2, <1>3, <1>4, ReviewRowStep

(* The refinement for the whole system: stages, retries, crashes, expiry,  *)
(* corrections and dead-letter retries, any number of each, amount to the  *)
(* lifecycle that the API promises.                                        *)
THEOREM ReviewImplementsPromise == ReviewSpec => ImplementsPromise
<1>1. ReviewInit => Promise!Init
  BY PipelineAssumption DEF ReviewInit, Init, NewRow, Promise!Init, Promise!Stages,
                            Promise!ClaimFrom, Stages, ClaimFrom
<1> QED
  BY <1>1, ReviewDocuments, ReviewKeepsPromise, PTL DEF ReviewSpec, ImplementsPromise, Promise!Spec

-------------------------------------------------------------------------------
(* Nothing runs ahead of the row.                                          *)

(* A request works on the key that the row had when it came.               *)
RequestsPast ==
    /\ \A u \in Reviewers : reviewer[u].key <= row.key
    /\ \A u \in Retriers : retrier[u].key <= row.key

WorkPast == ProcessPast /\ RequestsPast

(* The reviewer's requests enqueue a generation, at most.                  *)
LEMMA ReviewerPast ==
    ASSUME RInv, RInv', RowAges, JobsPast, WorkPast, NEW u \in Reviewers, ReviewerStep(u)
    PROVE  JobsPast' /\ WorkPast'
<1>0. /\ reviewer \in [Reviewers -> Reviewer] /\ row \in Row /\ row.key \in Keys
      /\ CInv /\ CInv' /\ KeyAges
      /\ \A v \in Reviewers : reviewer[v].key \in Keys /\ reviewer[v].key <= row.key
      /\ \A v \in Retriers : retrier[v].key \in Keys /\ retrier[v].key <= row.key
      /\ "generation" \in Stages
  <2>1. CInv /\ CInv' /\ KeyAges /\ PeopleOK /\ RequestsPast
    BY DEF RInv, RowAges, KeyAges, WorkPast
  <2>2. row \in Row /\ row.key \in Keys
    BY <2>1 DEF CInv, TypeOK, StoreTypeOK, Row
  <2> QED
    BY <2>1, <2>2, StageFacts DEF PeopleOK, Reviewer, Retrier, RequestsPast
<1>1. /\ UNCHANGED job \/ Enqueue("generation", reviewer[u].key)
      /\ UNCHANGED <<process, retrier>>
      /\ \A v \in Reviewers \ {u} : reviewer'[v] = reviewer[v]
      /\ reviewer'[u].key \in {1, row.key, reviewer[u].key}
  <2>1. CASE OpenReview(u)
    <3>1. reviewer' = [reviewer EXCEPT ![u] = [reviewer[u] EXCEPT !.seen = row]]
          /\ UNCHANGED <<job, process, retrier>>
      BY <2>1 DEF OpenReview, vars, store
    <3> QED
      BY <1>0, <3>1 DEF Reviewer
  <2>2. CASE SubmitRefused(u)
    <3>1. reviewer' = [reviewer EXCEPT ![u] = [reviewer[u] EXCEPT !.seen = Nothing]]
          /\ UNCHANGED <<job, process, retrier>>
      BY <2>2 DEF SubmitRefused, vars, store
    <3> QED
      BY <1>0, <3>1 DEF Reviewer
  <2>3. CASE Submit(u)
    <3>1. /\ UNCHANGED <<job, process, retrier>>
          /\ \/ reviewer' = [reviewer EXCEPT
                    ![u] = [pc |-> "publish", seen |-> Nothing, key |-> row.key]]
             \/ reviewer' = [reviewer EXCEPT ![u] = [reviewer[u] EXCEPT !.seen = row']]
      BY <2>3 DEF Submit
    <3> QED
      BY <1>0, <3>1 DEF Reviewer
  <2>4. CASE EnqueueGeneration(u) \/ EnqueueGenerationFails(u) \/ ReturnToReview(u)
    <3>1. /\ UNCHANGED job \/ Enqueue("generation", reviewer[u].key)
          /\ UNCHANGED <<process, retrier>>
          /\ \/ reviewer' = [reviewer EXCEPT
                    ![u] = [reviewer[u] EXCEPT !.pc = "idle", !.key = 1]]
             \/ reviewer' = [reviewer EXCEPT ![u] = [reviewer[u] EXCEPT !.pc = "rollback"]]
      BY <2>4 DEF EnqueueGeneration, EnqueueGenerationFails, ReturnToReview
    <3> QED
      BY <1>0, <3>1 DEF Reviewer
  <2> QED
    BY <2>1, <2>2, <2>3, <2>4 DEF ReviewerStep
<1>2. JobsPast'
  <2>1. reviewer[u].key <= row'.key
    BY <1>0, KeyFacts
  <2> QED
    BY <1>0, <1>1, <2>1, SameJobsPast, EnqueuePast
<1>3. RequestsPast'
  <2>1. /\ \A v \in Reviewers : reviewer'[v].key \in Keys /\ reviewer'[v].key <= row.key
        /\ \A v \in Retriers : retrier'[v].key \in Keys /\ retrier'[v].key <= row.key
    BY <1>0, <1>1, KeyFacts
  <2> QED
    BY <1>0, <2>1, KeyFacts DEF RequestsPast
<1>4. ProcessPast'
  BY <1>0, <1>1, KeyFacts DEF process, ProcessPast, UploadsPast, WorkPast, CInv, TypeOK,
                              Worker, Boot
<1> QED
  BY <1>2, <1>3, <1>4 DEF WorkPast

(* The retrier's requests write one job of their key, at most.             *)
LEMMA RetrierPast ==
    ASSUME RInv, RInv', RowAges, JobsPast, WorkPast, NEW u \in Retriers, RetrierStep(u)
    PROVE  JobsPast' /\ WorkPast'
<1>0. /\ retrier \in [Retriers -> Retrier] /\ row \in Row /\ row.key \in Keys
      /\ CInv /\ CInv' /\ KeyAges /\ job \in JobTable
      /\ \A v \in Reviewers : reviewer[v].key \in Keys /\ reviewer[v].key <= row.key
      /\ \A v \in Retriers : /\ retrier[v].key \in Keys /\ retrier[v].key <= row.key
                             /\ retrier[v].stage \in Stages
  <2>1. CInv /\ CInv' /\ KeyAges /\ PeopleOK /\ RequestsPast
    BY DEF RInv, RowAges, KeyAges, WorkPast
  <2>2. row \in Row /\ row.key \in Keys /\ job \in JobTable
    BY <2>1 DEF CInv, TypeOK, StoreTypeOK, Row, JobTable
  <2> QED
    BY <2>1, <2>2 DEF PeopleOK, Reviewer, Retrier, RequestsPast
<1>1. /\ UNCHANGED job \/ \E j : job' = [job EXCEPT ![retrier[u].stage][retrier[u].key] = j]
      /\ UNCHANGED <<process, reviewer>>
  BY DEF RetrierStep, StartRetry, CleanFailedJob, Reopen, PublishRetry, PublishRetryFails,
         DropDeadLetter, RepublishRetried, vars, store
<1>2. /\ \A v \in Retriers \ {u} : retrier'[v] = retrier[v]
      /\ retrier'[u].key \in {1, row.key, retrier[u].key}
  <2>1. NoRetry.key = 1
    BY DEF NoRetry
  <2>2. CASE StartRetry(u)
    BY <1>0, <2>2 DEF StartRetry
  <2>3. CASE CleanFailedJob(u) \/ Reopen(u) \/ PublishRetry(u)
    <3>1. \E pc : retrier' = [retrier EXCEPT ![u] = [retrier[u] EXCEPT !.pc = pc]]
      BY <2>3 DEF CleanFailedJob, Reopen, PublishRetry
    <3> QED
      BY <1>0, <3>1 DEF Retrier
  <2>4. CASE PublishRetryFails(u) \/ DropDeadLetter(u)
    BY <1>0, <2>1, <2>4 DEF PublishRetryFails, DropDeadLetter
  <2> QED
    BY <2>2, <2>3, <2>4 DEF RetrierStep
<1>3. JobsPast'
  BY <1>0, <1>1, SameJobsPast, ExistingJobPast
<1>4. RequestsPast'
  <2>1. /\ \A v \in Reviewers : reviewer'[v].key \in Keys /\ reviewer'[v].key <= row.key
        /\ \A v \in Retriers : retrier'[v].key \in Keys /\ retrier'[v].key <= row.key
    BY <1>0, <1>1, <1>2, KeyFacts
  <2> QED
    BY <1>0, <2>1, KeyFacts DEF RequestsPast
<1>5. ProcessPast'
  BY <1>0, <1>1, KeyFacts DEF process, ProcessPast, UploadsPast, WorkPast, CInv, TypeOK,
                              Worker, Boot
<1> QED
  BY <1>3, <1>4, <1>5 DEF WorkPast

(* No step of any kind gets ahead of the row.                              *)
LEMMA ReviewNextPast ==
    ASSUME RInv, RInv', JobsPast, WorkPast, [ReviewNext]_allVars
    PROVE  JobsPast' /\ WorkPast'
<1>0. RowAges /\ KeyAges /\ CInv /\ CInv' /\ ProcessPast
  BY ReviewRowAges DEF RInv, WorkPast, RowAges, KeyAges
<1>1. ASSUME UNCHANGED <<reviewer, retrier>> PROVE RequestsPast'
  BY <1>0, <1>1, KeyFacts DEF WorkPast, RequestsPast, RInv, PeopleOK, Reviewer, Retrier
<1>2. CASE (PipelineStep \/ UNCHANGED vars) /\ UNCHANGED people
  BY <1>0, <1>1, <1>2, PipelineStepIsNext, NextPast DEF people, WorkPast
<1>3. CASE \E s \in Stages : Park(s) /\ UNCHANGED people
  <2>1. /\ UNCHANGED <<job, completing, boot, upload>>
        /\ \A s \in Stages : worker'[s].key = worker[s].key
    BY <1>3 DEF Park, Goto, RInv, CInv, TypeOK, Worker
  <2>2. ProcessPast'
    BY <1>0, <2>1, KeyFacts DEF ProcessPast, UploadsPast, CInv, TypeOK, Worker, Boot
  <2> QED
    BY <1>0, <1>1, <1>3, <2>1, <2>2, SameJobsPast DEF people, WorkPast
<1>4. CASE Crash /\ RequestsDie
  <2>1. JobsPast' /\ ProcessPast' /\ 1 <= row'.key
    BY <1>0, <1>4, PipelineStepIsNext, NextPast, KeyFacts
  <2>2. \A u \in Reviewers : reviewer'[u].key = 1
    <3>1. reviewer' = [u \in Reviewers |-> [reviewer[u] EXCEPT !.pc = "idle", !.key = 1]]
      BY <1>4 DEF RequestsDie
    <3>2. \A u \in Reviewers : reviewer[u] \in Reviewer
      BY DEF RInv, PeopleOK
    <3> QED
      BY <3>1, <3>2 DEF Reviewer
  <2>3. \A u \in Retriers : retrier'[u].key = 1
    BY <1>4 DEF RequestsDie, NoRetry
  <2> QED
    BY <2>1, <2>2, <2>3 DEF WorkPast, RequestsPast
<1>5. CASE \E u \in Reviewers : ReviewerStep(u)
  BY <1>0, <1>5, ReviewerPast
<1>6. CASE \E u \in Retriers : RetrierStep(u)
  BY <1>0, <1>6, RetrierPast
<1> QED
  BY <1>2, <1>3, <1>4, <1>5, <1>6 DEF ReviewNext, PipelineStep, allVars

-------------------------------------------------------------------------------
(* Who moves an invoice that is corrected or retried, where no call to     *)
(* Redis fails.                                                            *)

(* A request that will publish a job of the stage.                         *)
Requested(s) ==
    \/ s = "generation" /\ \E u \in Reviewers : /\ reviewer[u].pc = "publish"
                                                /\ reviewer[u].key = row.key
    \/ \E u \in Retriers : /\ retrier[u].pc = "publish"
                           /\ retrier[u].stage = s
                           /\ retrier[u].key = row.key

(* A corrected invoice stays where it can be generated.                    *)
CorrectionsReach ==
    /\ \A u \in Reviewers : reviewer[u].pc # "rollback"
    /\ row.live => \A u \in Reviewers :
           reviewer[u].pc = "publish" /\ reviewer[u].key = row.key =>
               row.status \in Reached["generation"]

(* Parking leaves all of it as it is.                                      *)
LEMMA ParkForward ==
    ASSUME CInv, CInv', Forward, NEW r \in Stages, Park(r)
    PROVE  /\ Forward'
           /\ \A s \in Stages : (GivenUp(s)' => GivenUp(s)) /\ (Orphaned(s)' => Orphaned(s))
           /\ UNCHANGED row
<1>1. /\ UNCHANGED <<row, job, failing, completing, boot, upload>>
      /\ worker[r].pc = "park" /\ worker'[r].pc = "finish"
      /\ \A s \in Stages : worker'[s].key = worker[s].key
      /\ \A s \in Stages \ {r} : worker'[s] = worker[s]
  BY DEF Park, At, Goto, CInv, TypeOK, Worker
<1>2. JobsPast' /\ ProcessPast' /\ NothingTakenBack' /\ JobsReached'
  BY <1>1 DEF Forward, JobsPast, ProcessPast, UploadsPast, NothingTakenBack, JobsReached,
              Booting
<1>3. ClaimsHold'
  BY <1>1 DEF Forward, ClaimsHold
<1>4. \A s \in Stages : UNCHANGED <<StillToCome(s), Booting, InStage(s)>>
  BY <1>1 DEF StillToCome, Booting, InStage
<1>5. \A s \in Stages : GivenUp(s)' => GivenUp(s)
  BY <1>1, <1>4 DEF GivenUp, WillFail
<1>6. \A s \in Stages : Orphaned(s)' => Orphaned(s)
  BY <1>1, <1>4, StageOrder DEF Orphaned, AwaitsUpload, WillPublish, WillScan
<1> QED
  BY <1>1, <1>2, <1>3, <1>5, <1>6 DEF Forward

(* What a reviewer does, when the enqueue does not fail.                   *)
Corrected(u) ==
    /\ row.live /\ row.status = "NEEDS_REVIEW"
    /\ row'.key = row.key /\ row'.live
    /\ \/ /\ row'.status = "GENERATING"
          /\ reviewer'[u].pc = "publish" /\ reviewer'[u].key = row.key
       \/ /\ row'.status = "NEEDS_REVIEW"
          /\ reviewer'[u].pc = reviewer[u].pc /\ reviewer'[u].key = reviewer[u].key
    /\ UNCHANGED job

EnqueuesIt(u) ==
    /\ reviewer[u].pc = "publish" /\ reviewer'[u].pc = "idle"
    /\ Enqueue("generation", reviewer[u].key)
    /\ UNCHANGED row

(* It is one of these, and leaves the others' requests alone.              *)
LEMMA ReviewerMoves ==
    ASSUME RInv, MaxFaults = 0, NEW u \in Reviewers, reviewer[u].pc # "rollback", ReviewerStep(u)
    PROVE  /\ \/ /\ UNCHANGED <<row, job>>
                 /\ reviewer'[u].pc = reviewer[u].pc /\ reviewer'[u].key = reviewer[u].key
              \/ Corrected(u)
              \/ EnqueuesIt(u)
           /\ \A v \in Reviewers \ {u} : reviewer'[v] = reviewer[v]
           /\ UNCHANGED <<process, retrier, retries>>
<1>0. reviewer \in [Reviewers -> Reviewer] /\ reviewer[u] \in Reviewer /\ row \in Row
  BY DEF RInv, CInv, TypeOK, StoreTypeOK, PeopleOK
<1>1. ~EnqueueGenerationFails(u)
  BY DEF EnqueueGenerationFails, Fault, RInv, CInv, TypeOK
<1>2. ~ReturnToReview(u)
  BY DEF ReturnToReview, Reviewing
<1>3. CASE OpenReview(u) \/ SubmitRefused(u)
  <2>1. PICK seen : reviewer' = [reviewer EXCEPT ![u] = [reviewer[u] EXCEPT !.seen = seen]]
    BY <1>3 DEF OpenReview, SubmitRefused
  <2>2. reviewer'[u].pc = reviewer[u].pc /\ reviewer'[u].key = reviewer[u].key
        /\ \A v \in Reviewers \ {u} : reviewer'[v] = reviewer[v]
    BY <1>0, <2>1 DEF Reviewer
  <2> QED
    BY <1>3, <2>2 DEF OpenReview, SubmitRefused, vars, store
<1>4. CASE Submit(u)
  <2>1. ASSUME NEW to, NEW findings, Corrects(u, to, findings)
        PROVE  row.live /\ row.status = "NEEDS_REVIEW" /\ row'.key = row.key /\ row'.live
               /\ row'.status = to
    BY <1>0, <2>1 DEF Corrects, Holds, Row
  <2>2. CASE /\ Corrects(u, "GENERATING", {})
             /\ reviewer' = [reviewer EXCEPT
                    ![u] = [pc |-> "publish", seen |-> Nothing, key |-> row.key]]
    <3>1. /\ reviewer'[u].pc = "publish" /\ reviewer'[u].key = row.key
          /\ \A v \in Reviewers \ {u} : reviewer'[v] = reviewer[v]
      BY <1>0, <2>2
    <3> QED
      BY <1>4, <2>1, <2>2, <3>1 DEF Submit, Corrected
  <2>3. CASE /\ Corrects(u, "NEEDS_REVIEW", {"rule"})
             /\ reviewer' = [reviewer EXCEPT ![u] = [reviewer[u] EXCEPT !.seen = row']]
    <3>1. /\ reviewer'[u].pc = reviewer[u].pc /\ reviewer'[u].key = reviewer[u].key
          /\ \A v \in Reviewers \ {u} : reviewer'[v] = reviewer[v]
      BY <1>0, <2>3 DEF Reviewer
    <3> QED
      BY <1>4, <2>1, <2>3, <3>1 DEF Submit, Corrected
  <2> QED
    BY <1>4, <2>2, <2>3 DEF Submit
<1>5. CASE EnqueueGeneration(u)
  <2>1. reviewer' = [reviewer EXCEPT ![u] = [reviewer[u] EXCEPT !.pc = "idle", !.key = 1]]
    BY <1>5 DEF EnqueueGeneration
  <2>2. reviewer'[u].pc = "idle" /\ \A v \in Reviewers \ {u} : reviewer'[v] = reviewer[v]
    BY <1>0, <2>1 DEF Reviewer
  <2> QED
    BY <1>5, <2>2 DEF EnqueueGeneration, Reviewing, EnqueuesIt
<1> QED
  BY <1>1, <1>2, <1>3, <1>4, <1>5 DEF ReviewerStep

(* A correction, and the generation it asks for, go forward too.           *)
LEMMA ReviewerForward ==
    ASSUME RInv, RInv', MaxFaults = 0, Forward, JobsPast', ProcessPast', CorrectionsReach,
           NEW u \in Reviewers, ReviewerStep(u)
    PROVE  /\ Forward' /\ CorrectionsReach'
           /\ \A s \in Stages : Orphaned(s)' /\ ~Requested(s)' => Orphaned(s) /\ ~Requested(s)
<1>0. /\ CInv /\ row.key \in Keys /\ "generation" \in Stages /\ reviewer[u].key \in Keys
      /\ reviewer[u].pc # "rollback"
  BY StageOrder DEF RInv, CInv, TypeOK, StoreTypeOK, Row, PeopleOK, Reviewer, CorrectionsReach
<1>1. /\ UNCHANGED <<process, retrier, retries>>
      /\ \A v \in Reviewers \ {u} : reviewer'[v] = reviewer[v]
  BY <1>0, ReviewerMoves
<1>2. /\ UNCHANGED <<worker, failing, completing, boot, upload>> /\ Booting' = Booting
      /\ \A s \in Stages : StillToCome(s)' = StillToCome(s)
  BY <1>1 DEF StillToCome, Booting, process
<1>3. NothingTakenBack'
  BY <1>2 DEF Forward, NothingTakenBack
<1>4. CASE /\ UNCHANGED <<row, job>>
           /\ reviewer'[u].pc = reviewer[u].pc /\ reviewer'[u].key = reviewer[u].key
  <2>1. JobsReached' /\ ClaimsHold'
    BY <1>2, <1>4 DEF Forward, JobsReached, ClaimsHold
  <2>2. \A v \in Reviewers : reviewer'[v].pc = reviewer[v].pc /\ reviewer'[v].key = reviewer[v].key
    BY <1>1, <1>4
  <2>3. CorrectionsReach'
    BY <1>4, <2>2 DEF CorrectionsReach
  <2>4. \A s \in Stages : (Orphaned(s)' => Orphaned(s)) /\ (Requested(s) => Requested(s)')
    BY <1>1, <1>2, <1>4, <2>2
       DEF Orphaned, InStage, AwaitsUpload, WillPublish, WillScan, Requested
  <2> QED
    BY <1>3, <2>1, <2>3, <2>4 DEF Forward
<1>5. CASE Corrected(u)
  <2>1. /\ row.live /\ row.status = "NEEDS_REVIEW" /\ row'.key = row.key /\ row'.live
        /\ row'.status \in {"NEEDS_REVIEW", "GENERATING"} /\ UNCHANGED job
    BY <1>5 DEF Corrected
  <2>2. \A s \in Stages : "GENERATING" \in Reached[s] /\ "NEEDS_REVIEW" \in Reached[s]
    <3>1. "GENERATING" \in Status /\ "NEEDS_REVIEW" \in Resting /\ Resting \subseteq Status
      BY DEF Status, Resting
    <3> QED
      BY <3>1 DEF Stages, Reached, InFlight, ClaimFrom, ClaimTo, Resting
  <2>3. JobsReached'
    <3>1. Booting \in Stages
      BY <1>0, PipelineAssumption DEF Booting, CInv, TypeOK, Boot
    <3>2. \A s \in Stages : row'.status \in Reached[s]
      BY <2>1, <2>2
    <3> QED
      BY <1>0, <1>2, <3>1, <3>2 DEF JobsReached
  <2>4. ClaimsHold'
    <3>1. \A s \in Stages : row.status # ClaimFrom[s] /\ row.status # ClaimTo[s]
                            /\ "NEEDS_REVIEW" # "FAILED"
      BY <2>1, StageOrder
    <3>2. \A s \in Stages : row'.status # ClaimTo[s]
                            /\ (s # "generation" => row'.status # ClaimFrom[s])
      BY <2>1, StageOrder
    <3>3. \A s \in Publishers : s \in Stages /\ NextStage[s] \in Stages
      BY StageOrder
    <3> QED
      BY <1>2, <2>1, <2>2, <3>1, <3>2, <3>3 DEF Forward, ClaimsHold
  <2>5. CorrectionsReach'
    BY <1>0, <1>1, <1>5, <2>1, <2>2 DEF CorrectionsReach, Corrected
  <2>6. ASSUME NEW s \in Stages, Orphaned(s)' PROVE Requested(s)'
    <3>1. row'.status = "GENERATING" /\ s = "generation"
      BY <2>1, <2>6, StageOrder DEF Orphaned, InStage
    <3>2. reviewer'[u].pc = "publish" /\ reviewer'[u].key = row'.key
      BY <1>5, <3>1 DEF Corrected
    <3> QED
      BY <3>1, <3>2 DEF Requested
  <2> QED
    BY <1>3, <2>3, <2>4, <2>5, <2>6 DEF Forward
<1>6. CASE EnqueuesIt(u)
  <2>1. /\ reviewer[u].pc = "publish" /\ reviewer'[u].pc = "idle" /\ UNCHANGED row
        /\ Enqueue("generation", reviewer[u].key)
    BY <1>6 DEF EnqueuesIt
  <2>2. /\ job'["generation"][reviewer[u].key].state # "none"
        /\ \A s \in Stages, k \in Keys :
               \/ job'[s][k] = job[s][k]
               \/ s = "generation" /\ k = reviewer[u].key /\ job[s][k].state = "none"
    BY <1>0, <2>1, EnqueueStep
  <2>3. JobsReached'
    BY <1>0, <1>2, <2>1, <2>2 DEF Forward, JobsReached, CorrectionsReach
  <2>4. ClaimsHold'
    BY <1>2, <2>1 DEF Forward, ClaimsHold
  <2>5. CorrectionsReach'
    BY <1>1, <2>1 DEF CorrectionsReach
  <2>6. ASSUME NEW s \in Stages, Orphaned(s)', ~Requested(s)'
        PROVE  Orphaned(s) /\ ~Requested(s)
    <3>1. s # "generation" \/ reviewer[u].key # row.key
      BY <2>1, <2>2, <2>6 DEF Orphaned
    <3>2. Orphaned(s)
      BY <1>0, <1>2, <2>1, <2>2, <2>6, <3>1
         DEF Orphaned, InStage, AwaitsUpload, WillPublish, WillScan
    <3>3. ~Requested(s)
      BY <1>1, <2>1, <2>6, <3>1 DEF Requested
    <3> QED
      BY <3>2, <3>3
  <2> QED
    BY <1>3, <2>3, <2>4, <2>5, <2>6 DEF Forward
<1> QED
  BY <1>0, <1>4, <1>5, <1>6, ReviewerMoves

(* So do the steps of the pipeline beside the requests.                    *)
LEMMA PipelineForward ==
    ASSUME RInv, RInv', MaxFaults = 0, Forward, CorrectionsReach, RequestsPast,
           \/ (PipelineStep \/ UNCHANGED vars) /\ UNCHANGED people
           \/ Crash /\ RequestsDie
    PROVE  /\ Forward' /\ CorrectionsReach'
           /\ \A s \in Stages : Orphaned(s)' /\ ~Requested(s)' => Orphaned(s) /\ ~Requested(s)
<1>0. [Next]_vars /\ CInv /\ CInv'
  BY PipelineStepIsNext DEF RInv
<1>1. Forward'
  BY <1>0, NextKeepsForward
<1>2. ASSUME NEW s \in Stages, Orphaned(s)' PROVE Orphaned(s) /\ row'.key = row.key
  BY <1>0, <1>2, NextOrphaned DEF Forward
<1>3. CASE UNCHANGED people
  <2>1. UNCHANGED <<reviewer, retrier>>
    BY <1>3 DEF people
  <2>2. \A s \in Stages : row'.key = row.key /\ Requested(s) => Requested(s)'
    BY <2>1 DEF Requested
  <2>3. CorrectionsReach'
    <3>1. CASE Renew
      <4>1. row.key \in Nat /\ row'.key = row.key + 1
        BY <3>1, StoreAssumption DEF Renew, NewRow, RInv, CInv, TypeOK, StoreTypeOK, Row, Keys
      <4>2. \A u \in Reviewers : reviewer[u].key \in Nat /\ reviewer[u].key # row'.key
        BY <4>1, StoreAssumption DEF RequestsPast, RInv, PeopleOK, Reviewer, Keys
      <4> QED
        BY <2>1, <4>2 DEF CorrectionsReach
    <3>2. CASE ~Renew
      <4>1. ASSUME row'.live
            PROVE  /\ row.live /\ row'.key = row.key
                   /\ row.status \in Reached["generation"] => row'.status \in Reached["generation"]
        BY <1>0, <3>2, <4>1, NextForward, StageOrder DEF Forward
      <4> QED
        BY <2>1, <4>1 DEF CorrectionsReach
    <3> QED
      BY <3>1, <3>2
  <2> QED
    BY <1>1, <1>2, <2>2, <2>3
<1>4. CASE Crash /\ RequestsDie
  <2>1. \A u \in Reviewers : reviewer'[u].pc = "idle"
    <3>1. reviewer' = [u \in Reviewers |-> [reviewer[u] EXCEPT !.pc = "idle", !.key = 1]]
      BY <1>4 DEF RequestsDie
    <3>2. \A u \in Reviewers : reviewer[u] \in Reviewer
      BY DEF RInv, PeopleOK
    <3> QED
      BY <3>1, <3>2 DEF Reviewer
  <2>2. boot'.pc = "down"
    BY <1>4 DEF Crash, Booted
  <2>3. \A s \in Stages : ~Orphaned(s)'
    BY <2>2 DEF Orphaned, WillPublish, WillScan, StillToCome
  <2> QED
    BY <1>1, <2>1, <2>3 DEF CorrectionsReach
<1> QED
  BY <1>3, <1>4

(* Where nobody retries, the one thing that strands an invoice is a job    *)
(* that BullMQ gave up on while the invoice was in review, and that kept   *)
(* its id: corrections, completions and startups publish around it in      *)
(* vain.  A correction that crosses a finishing job strands nothing.       *)
THEOREM OnlyFailedJobsEverStrand ==
    ASSUME MaxFaults = 0, Retriers = {}
    PROVE  ReviewSpec => []OnlyFailedJobsStrand
<1> DEFINE Kept == /\ Forward /\ CorrectionsReach /\ RequestsPast
                   /\ \A s \in Stages : ~(Orphaned(s) /\ ~Requested(s))
<1>1. ReviewInit => Kept
  <2> SUFFICES ASSUME ReviewInit PROVE Kept
    OBVIOUS
  <2>1. Forward /\ \A s \in Stages : ~Orphaned(s)
    BY ReviewInitRInv, InitForward DEF ReviewInit, RInv
  <2>2. /\ \A u \in Reviewers : reviewer[u].pc = "idle" /\ reviewer[u].key = 1
        /\ \A u \in Retriers : retrier[u].key = 1
        /\ row.key = 1
    BY DEF ReviewInit, NoRetry, Init, NewRow
  <2> QED
    BY <2>1, <2>2 DEF CorrectionsReach, RequestsPast
<1>2. RInv /\ RInv' /\ Kept /\ [ReviewNext]_allVars => Kept'
  <2> SUFFICES ASSUME RInv, RInv', Kept, [ReviewNext]_allVars PROVE Kept'
    OBVIOUS
  <2>1. JobsPast' /\ ProcessPast' /\ RequestsPast'
    BY ReviewNextPast DEF Forward, WorkPast
  <2>2. CASE \/ (PipelineStep \/ UNCHANGED vars) /\ UNCHANGED people
             \/ Crash /\ RequestsDie
    BY <2>1, <2>2, PipelineForward
  <2>3. CASE \E s \in Stages : Park(s) /\ UNCHANGED people
    <3>1. Forward' /\ (\A s \in Stages : Orphaned(s)' => Orphaned(s)) /\ UNCHANGED row
      BY <2>3, ParkForward DEF RInv
    <3>2. CorrectionsReach' /\ \A s \in Stages : Requested(s) => Requested(s)'
      BY <2>3, <3>1 DEF CorrectionsReach, Requested, people
    <3> QED
      BY <2>1, <3>1, <3>2
  <2>4. CASE \E u \in Reviewers : ReviewerStep(u)
    BY <2>1, <2>4, ReviewerForward
  <2> QED
    BY <2>2, <2>3, <2>4 DEF ReviewNext, PipelineStep, allVars
<1>3. RInv /\ Kept => OnlyFailedJobsStrand
  <2> SUFFICES ASSUME RInv, Kept, NEW s \in Stages, InStage(s), ~AwaitsUpload
               PROVE  \/ Driven(s, row.key) \/ DrivenByRequest(s, row.key)
                      \/ job[s][row.key].state = "failed"
    BY DEF OnlyFailedJobsStrand, InStage
  <2>1. Requested(s) => DrivenByRequest(s, row.key)
    BY DEF Requested, DrivenByRequest
  <2>2. job[s][row.key].state # "failed" => ~GivenUp(s)
    BY DEF GivenUp
  <2> QED
    BY <2>1, <2>2, StageDriven DEF RInv, CInv
<1>4. ReviewSpec => []RInv
  BY ReviewInitRInv, ReviewNextRInv, PTL DEF ReviewSpec
<1> QED
  BY <1>1, <1>2, <1>3, <1>4, PTL DEF ReviewSpec

-------------------------------------------------------------------------------
(* Retries, one at a time.                                                 *)

(* What a retry of the current lifecycle relies on: the stage that gave up *)
(* is known by the failure of the row, by its failed job and by its dead   *)
(* letter, and nothing else of the lifecycle is under way.                 *)
Exhausted(s) == AlreadyExhausted(s, row.key)

Retries(pc, s) ==
    \E u \in Retriers : /\ retrier[u].pc = pc
                        /\ retrier[u].stage = s
                        /\ retrier[u].key = row.key

(* Listeners and rows agree about who gave up; the failed job is there, or *)
(* a retry has just taken it away.                                         *)
FailuresAgree == row.live => \A s \in Stages :
    /\ failing[s][row.key] # "none" => job[s][row.key].state = "failed"
    /\ failing[s][row.key] = "park" => Exhausted(s)
    /\ Exhausted(s) => \/ job[s][row.key].state = "failed"
                       \/ job[s][row.key].state = "none" /\ Retries("reopen", s)

(* No stage after the one that gave up has been asked for.                 *)
GaveUpInOrder == row.live =>
    /\ \A s, r \in Stages :
           Exhausted(r) /\ job[s][row.key].state # "none" => ClaimFrom[r] \in Reached[s]
    /\ completing[row.key] # "none" =>
           row.status \in Resting /\ \A s \in Stages : ~Exhausted(s)

(* A worker is about the stage that the row is in, or has done with it.    *)
WorkersInStep == row.live => \A s \in Stages : worker[s].key = row.key =>
    /\ worker[s].pc # "park"
    /\ worker[s].pc = "claim" => row.status = ClaimFrom[s]
    /\ worker[s].pc = "work" => row.status = ClaimTo[s]
    /\ worker[s].pc = "finish" => row.status \notin InFlight(s)
    /\ worker[s].pc = "publish" =>
           /\ s \in Publishers /\ row.status = ClaimFrom[NextStage[s]]
           /\ job[NextStage[s]][row.key].state = "none"

(* A dead letter stands for the failure, or its retry is past the row.     *)
LettersStand == row.live => \A s \in Stages : HasDeadLetter(s, row.key) =>
    \/ Exhausted(s) /\ failing[s][row.key] = "none"
    \/ Retries("publish", s) \/ Retries("drop", s)

(* A retry finds what it saw when it began.                                *)
RetriesStand == row.live => \A s \in Stages :
    /\ Retries("clean", s) => /\ Exhausted(s) /\ failing[s][row.key] = "none"
                              /\ job[s][row.key].state = "failed"
    /\ Retries("reopen", s) => Exhausted(s) /\ job[s][row.key].state = "none"
    /\ Retries("publish", s) =>
           /\ row.status = ReopenTo[s] /\ job[s][row.key].state = "none"
           /\ \A p \in Publishers : ~(/\ NextStage[p] = s /\ worker[p].key = row.key
                                      /\ worker[p].pc = "publish")

(* Listeners and dead letters are of keys that the row has had, and a      *)
(* stage has one letter at most.                                           *)
FailuresPast ==
    /\ \A s \in Stages, k \in Keys : failing[s][k] # "none" => k <= row.key
    /\ \A s \in Stages, k \in Keys : HasDeadLetter(s, k) => k <= row.key

LettersOnce ==
    \A k \in Keys : \A i, j \in DOMAIN deadLetters[k] :
        deadLetters[k][i] = deadLetters[k][j] => i = j

InStep == /\ FailuresAgree /\ GaveUpInOrder /\ WorkersInStep
          /\ LettersStand /\ RetriesStand

(* The upload of the lifecycle comes before all else, if it is not         *)
(* repeated while the invoice is UPLOADED: a repeated one could publish    *)
(* the job of a stage that has failed meanwhile.                           *)
UploadsFirst == row.live /\ upload[row.key].pc # "none" =>
    /\ row.status = "UPLOADED"
    /\ job["text-extraction"][row.key].state = "none"

-------------------------------------------------------------------------------
(* The steps of the pipeline while nothing has crashed.                    *)

(* Stages fail one at a time.                                              *)
LEMMA ExhaustedOnce ==
    /\ \A s, r \in Stages : Exhausted(s) /\ Exhausted(r) => s = r
    /\ \A s, r \in Stages : Exhausted(s) => row.live /\ row.status \notin InFlight(r)
    /\ \A s \in Stages : Exhausted(s) => row.status = "FAILED" /\ row.failure = s
BY StageOrder DEF Exhausted, AlreadyExhausted, Holds

(* A retry takes the row back into the stage.                              *)
LEMMA ReopenedStage ==
    \A s \in Stages : /\ ReopenTo[s] \in InFlight(s)
                      /\ ReopenTo[s] # "FAILED" /\ ReopenTo[s] \notin Resting
BY DEF Stages, ReopenTo, InFlight, ClaimFrom, ClaimTo, Resting

(* Without a crash there is no startup.                                    *)
LEMMA NextNoStartup ==
    ASSUME TypeOK, MaxFaults = 0, MaxCrashes = 0, boot.pc = "done", [Next]_vars
    PROVE  /\ boot'.pc = "done" /\ ~Crash /\ ~BootStep
<1>1. ~Crash
  BY DEF Crash, TypeOK
<1>2. ~BootStep
  BY DEF BootStep, Restart, BootFailedJobs, BootFail, BootPark, BootScan, BootPublish
<1>3. ~FaultStep
  BY NoFaultStep
<1>4. \A s \in Stages : WorkerStep(s) => UNCHANGED boot
  BY DEF WorkerStep, Take, TakeThrows, Claim, Extract, Validate, Generate, Publish,
         Rollback, Finish, Throw
<1>5. ListenerStep => UNCHANGED boot
  BY DEF ListenerStep, FinalizeFail, FinalizePark, CheckRegeneration, Republish
<1> QED
  BY <1>1, <1>2, <1>3, <1>4, <1>5 DEF Next, ProcessStep, RecoverStalled, Expire, UploadStep,
                                     Renew, RepeatUpload, SaveFile, EnqueueUpload,
                                     EnqueueUploadFails, process, vars

(* What becomes of a listener: a job fails before it, it fails the row, it *)
(* parks the job, or it ends.                                              *)
FailingStep(s, k) ==
    \/ failing'[s][k] = failing[s][k]
    \/ /\ failing'[s][k] = "fail"
       /\ job[s][k].state \in {"waiting", "active"} /\ job'[s][k].state = "failed"
    \/ /\ failing[s][k] = "fail" /\ failing'[s][k] = "park"
       /\ AlreadyExhausted(s, k)'
    \/ failing[s][k] # "none" /\ failing'[s][k] = "none"

(* A job that throws fails before a listener, if at all.                   *)
LEMMA TryAgainFailing ==
    ASSUME CInv, NEW s \in Stages, NEW k \in Keys, TryAgain(s, k),
           job[s][k].state \in {"waiting", "active"}
    PROVE  \A r \in Stages, l \in Keys : FailingStep(r, l)
<1> DEFINE made == job[s][k].made + 1
           state == IF made < Attempts THEN "waiting" ELSE "failed"
<1>1. job'[s][k].state = state
  BY DEF TryAgain, CInv, TypeOK, StoreTypeOK, Job
<1>2. failing' = IF state = "failed" THEN [failing EXCEPT ![s][k] = "fail"] ELSE failing
  BY DEF TryAgain
<1> HIDE DEF state
<1> QED
  BY <1>1, <1>2 DEF FailingStep, CInv, TypeOK

(* Every step treats every listener like that.                             *)
LEMMA NextFailingStep ==
    ASSUME CInv, MaxFaults = 0, MaxCrashes = 0, boot.pc = "done", [Next]_vars
    PROVE  \A s \in Stages, k \in Keys : FailingStep(s, k)
<1>0. /\ TypeOK /\ ~FaultStep /\ ~Crash /\ ~BootStep
      /\ failing \in [Stages -> [Keys -> {"none", "fail", "park"}]]
      /\ job \in JobTable /\ row \in Row
  BY NoFaultStep, NextNoStartup DEF CInv, TypeOK, StoreTypeOK, JobTable
<1>1. ASSUME UNCHANGED failing PROVE \A s \in Stages, k \in Keys : FailingStep(s, k)
  BY <1>1 DEF FailingStep
<1>2. ASSUME NEW r \in Stages, WorkerStep(r)
      PROVE  \A s \in Stages, k \in Keys : FailingStep(s, k)
  <2>1. worker[r].key \in Keys /\ (worker[r].pc # "idle" => job[r][worker[r].key].state = "active")
    BY DEF CInv, WorkersAgree, TypeOK, Worker
  <2>2. CASE Throw(r) \/ \E k \in Keys : TakeThrows(r, k)
    BY <2>1, <2>2, TryAgainFailing DEF Throw, TakeThrows, At
  <2> QED
    BY <1>1, <1>2, <2>2 DEF WorkerStep, Take, Claim, Extract, Validate, Generate, Publish,
                            Rollback, Finish
<1>3. ASSUME NEW r \in Stages, NEW l \in Keys, RecoverStalled(r, l)
      PROVE  \A s \in Stages, k \in Keys : FailingStep(s, k)
  <2>1. CASE UNCHANGED failing
    BY <1>1, <2>1
  <2>2. CASE failing' = [failing EXCEPT ![r][l] = "fail"]
             /\ job' = [job EXCEPT ![r][l].state = "failed"]
    <3>1. job[r][l].state = "active" /\ job'[r][l].state = "failed"
      BY <1>0, <1>3, <2>2 DEF RecoverStalled, JobTable, Job
    <3> QED
      BY <1>0, <2>2, <3>1 DEF FailingStep
  <2> QED
    BY <1>3, <2>1, <2>2 DEF RecoverStalled
<1>4. CASE ListenerStep
  <2>1. ASSUME NEW r \in Stages, NEW l \in Keys, FinalizeFail(r, l)
        PROVE  \A s \in Stages, k \in Keys : FailingStep(s, k)
    <3>1. FailIrrecoverably(r, l) => AlreadyExhausted(r, l)'
      BY <1>0 DEF FailIrrecoverably, FailsIrrecoverably, AlreadyExhausted, Holds, Row
    <3> QED
      BY <1>0, <2>1, <3>1 DEF FinalizeFail, FailingStep
  <2>2. ASSUME NEW r \in Stages, NEW l \in Keys, FinalizePark(r, l)
        PROVE  \A s \in Stages, k \in Keys : FailingStep(s, k)
    BY <1>0, <2>2 DEF FinalizePark, FailingStep
  <2> QED
    BY <1>1, <1>4, <2>1, <2>2 DEF ListenerStep, CheckRegeneration, Republish
<1> QED
  BY <1>0, <1>1, <1>2, <1>3, <1>4, UploadLeaves DEF Next, ProcessStep, Expire, process, vars

(* What becomes of the dead letters: a listener parks a job.               *)
LEMMA MoveToDlqStep ==
    ASSUME CInv, LettersOnce, NEW r \in Stages, NEW l \in Keys, MoveToDlq(r, l)
    PROVE  /\ LettersOnce'
           /\ \A s \in Stages, k \in Keys :
                  HasDeadLetter(s, k)' => HasDeadLetter(s, k) \/ (s = r /\ k = l)
<1>1. deadLetters \in [Keys -> Seq(Stages)]
  BY DEF CInv, TypeOK, StoreTypeOK
<1>2. CASE HasDeadLetter(r, l)
  BY <1>2 DEF MoveToDlq, LettersOnce, HasDeadLetter
<1>3. CASE ~HasDeadLetter(r, l)
  <2>1. deadLetters' = [deadLetters EXCEPT ![l] = Append(deadLetters[l], r)]
    BY <1>3 DEF MoveToDlq
  <2> DEFINE letters == deadLetters[l]
  <2>2. letters \in Seq(Stages)
    BY <1>1
  <2>3. /\ Len(Append(letters, r)) = Len(letters) + 1 /\ Len(letters) \in Nat
        /\ DOMAIN letters = 1 .. Len(letters) /\ DOMAIN Append(letters, r) = 1 .. Len(letters) + 1
        /\ \A i \in 1 .. Len(letters) : Append(letters, r)[i] = letters[i]
        /\ Append(letters, r)[Len(letters) + 1] = r
    BY <2>2
  <2>4. /\ deadLetters'[l] = Append(letters, r)
        /\ \A k \in Keys \ {l} : deadLetters'[k] = deadLetters[k]
    BY <1>1, <2>1
  <2>5. \A i \in 1 .. Len(letters) : letters[i] # r
    BY <1>3, <2>3 DEF HasDeadLetter
  <2>6. \A i, j \in 1 .. Len(letters) : letters[i] = letters[j] => i = j
    BY <2>3 DEF LettersOnce
  <2> HIDE DEF letters
  <2>7. \A i, j \in DOMAIN deadLetters'[l] : deadLetters'[l][i] = deadLetters'[l][j] => i = j
    BY <2>3, <2>4, <2>5, <2>6
  <2>8. LettersOnce'
    BY <2>4, <2>7 DEF LettersOnce
  <2>9. \A s \in Stages : HasDeadLetter(s, l)' => HasDeadLetter(s, l) \/ s = r
    BY <2>3, <2>4 DEF HasDeadLetter, letters
  <2>10. \A s \in Stages, k \in Keys \ {l} : HasDeadLetter(s, k)' => HasDeadLetter(s, k)
    BY <2>4 DEF HasDeadLetter
  <2> QED
    BY <2>8, <2>9, <2>10
<1> QED
  BY <1>2, <1>3

(* Only a listener adds letters to what the pipeline keeps.                *)
LEMMA NextLetters ==
    ASSUME CInv, MaxFaults = 0, MaxCrashes = 0, boot.pc = "done", LettersOnce, [Next]_vars
    PROVE  /\ LettersOnce'
           /\ \A s \in Stages, k \in Keys : HasDeadLetter(s, k)' =>
                  HasDeadLetter(s, k) \/ (failing[s][k] = "park" /\ failing'[s][k] = "none")
<1>0. /\ TypeOK /\ ~FaultStep /\ ~Crash /\ ~BootStep
      /\ failing \in [Stages -> [Keys -> {"none", "fail", "park"}]]
  BY NoFaultStep, NextNoStartup DEF CInv, TypeOK
<1>1. ASSUME UNCHANGED deadLetters
      PROVE  /\ LettersOnce'
             /\ \A s \in Stages, k \in Keys : HasDeadLetter(s, k)' => HasDeadLetter(s, k)
  BY <1>1 DEF LettersOnce, HasDeadLetter
<1>2. ASSUME NEW r \in Stages, NEW l \in Keys, FinalizePark(r, l)
      PROVE  /\ LettersOnce'
             /\ \A s \in Stages, k \in Keys : HasDeadLetter(s, k)' =>
                    HasDeadLetter(s, k) \/ (failing[s][k] = "park" /\ failing'[s][k] = "none")
  BY <1>0, <1>2, MoveToDlqStep DEF FinalizePark
<1>3. \A s \in Stages : WorkerStep(s) => UNCHANGED deadLetters
  BY DEF WorkerStep, Take, TakeThrows, Claim, Extract, Validate, Generate, Publish,
         Rollback, Finish, Throw
<1>4. CASE ListenerStep
  BY <1>1, <1>2, <1>4 DEF ListenerStep, FinalizeFail, CheckRegeneration, Republish, store
<1> QED
  BY <1>0, <1>1, <1>3, <1>4, UploadLeaves
     DEF Next, ProcessStep, RecoverStalled, Expire, vars, store

(* They stay within the keys of the row.                                   *)
LEMMA NextFailuresPast ==
    ASSUME CInv, CInv', MaxFaults = 0, MaxCrashes = 0, boot.pc = "done", JobsPast, FailuresPast,
           LettersOnce, [Next]_vars
    PROVE  FailuresPast'
<1>1. row.key \in Nat /\ row'.key \in Nat /\ row.key <= row'.key
      /\ \A k \in Keys : k \in Nat
  <2>1. row \in Row /\ row' \in Row
    BY DEF CInv, TypeOK, StoreTypeOK
  <2>2. KeyAges
    BY NextRowStep, RowStepKey DEF CInv, TypeOK, StoreTypeOK
  <2> QED
    BY <2>1, <2>2, StoreAssumption DEF KeyAges, Row, Keys
<1>2. \A s \in Stages, k \in Keys : failing'[s][k] # "none" => k <= row.key
  BY NextFailingStep DEF FailingStep, FailuresPast, JobsPast
<1>3. \A s \in Stages, k \in Keys : HasDeadLetter(s, k)' => k <= row.key
  BY NextLetters DEF FailuresPast
<1> QED
  BY <1>1, <1>2, <1>3 DEF FailuresPast

(* A new lifecycle has none of it.                                         *)
LEMMA UploadInStep ==
    ASSUME CInv, JobsPast, ProcessPast, FailuresPast, PeopleOK, RequestsPast, Renew,
           UNCHANGED people
    PROVE  InStep'
<1>1. /\ row'.live /\ row'.status = ClaimFrom["text-extraction"] /\ row'.key = row.key + 1
      /\ row'.key \in Keys /\ row.key \in Nat
      /\ \A s \in Stages : worker'[s].key # row'.key
      /\ completing'[row'.key] = "none" /\ UNCHANGED <<failing, deadLetters>>
  BY UploadFresh, StoreAssumption
     DEF Renew, NewRow, process, CInv, TypeOK, StoreTypeOK, Row, Keys
<1>2. \A s \in Stages : failing[s][row'.key] = "none" /\ ~HasDeadLetter(s, row'.key)
  BY <1>1 DEF FailuresPast
<1>3. \A s \in Stages : ~Exhausted(s)'
  BY <1>1, StageOrder DEF Exhausted, AlreadyExhausted, Holds, Stages
<1>4. \A pc, s : ~Retries(pc, s)'
  <2>1. \A u \in Retriers : retrier[u].key # row'.key /\ retrier'[u] = retrier[u]
    BY <1>1 DEF RequestsPast, people
  <2> QED
    BY <2>1 DEF Retries
<1> QED
  BY <1>1, <1>2, <1>3, <1>4
     DEF InStep, FailuresAgree, GaveUpInOrder, WorkersInStep, LettersStand, RetriesStand,
         HasDeadLetter

(* Otherwise the row moves on with the stage that it is in, or stays.      *)
LEMMA NextRowInStep ==
    ASSUME CInv, MaxFaults = 0, boot.pc = "done", NothingTakenBack, FailuresAgree,
           [Next]_vars, ~Renew, row'.live
    PROVE  /\ row.live /\ row'.key = row.key /\ row.key \in Keys
           /\ \/ UNCHANGED row
              \/ \E r \in Stages :
                     /\ row.status \in InFlight(r)
                     /\ \/ Advances(r) /\ job[r][row.key].state = "active"
                        \/ GivesUp(r) /\ job[r][row.key].state = "failed"
<1>1. row.live /\ row'.key = row.key /\ row.key \in Keys
  BY NextForward
<1>2. ASSUME NEW r \in Stages, Advances(r)
      PROVE  row.status \in InFlight(r) /\ job[r][row.key].state = "active"
  BY <1>2 DEF Advances, InFlight, CInv, WorkersAgree
<1>3. ASSUME NEW r \in Stages, GivesUp(r)
      PROVE  row.status \in InFlight(r) /\ job[r][row.key].state = "failed"
  BY <1>1, <1>3 DEF GivesUp, FailuresAgree
<1>4. UNCHANGED row \/ \E r \in Stages : Advances(r) \/ GivesUp(r)
  BY NextMoves DEF CInv
<1> QED
  BY <1>1, <1>2, <1>3, <1>4

(* Its jobs stay failed, or unpublished where nobody is at it.             *)
LEMMA NextJobStays ==
    ASSUME CInv, MaxFaults = 0, boot.pc = "done", [Next]_vars, ~Renew,
           NEW s \in Stages, NEW k \in Keys
    PROVE  /\ job[s][k].state = "failed" => job'[s][k].state = "failed"
           /\ job[s][k].state = "none" /\ completing[k] = "none" /\ upload[k].pc = "none" =>
                  \/ job'[s][k].state = "none"
                  \/ /\ UNCHANGED row
                     /\ \E p \in Publishers : /\ NextStage[p] = s /\ worker[p].key = k
                                              /\ worker[p].pc = "publish"
                                              /\ worker'[p].pc = "finish"
           /\ job'[s][k].state = "active" => job[s][k].state \in {"waiting", "active"}
<1>1. JobStep(s, k)
  BY NextJobs
<1>2. worker[s].pc = "finish" /\ worker[s].key = k => job[s][k].state = "active"
  BY DEF CInv, WorkersAgree
<1> QED
  BY <1>1, <1>2 DEF JobStep, Publishes

(* The pipeline's steps keep the lifecycle in step with its failures:      *)
LEMMA NextFailuresAgree ==
    ASSUME CInv, MaxFaults = 0, MaxCrashes = 0, boot.pc = "done", NothingTakenBack, InStep,
           UploadsFirst, [Next]_vars, ~Renew, UNCHANGED people
    PROVE  FailuresAgree'
<1> SUFFICES ASSUME row'.live, NEW s \in Stages
             PROVE  /\ failing'[s][row'.key] # "none" => job'[s][row'.key].state = "failed"
                    /\ failing'[s][row'.key] = "park" => Exhausted(s)'
                    /\ Exhausted(s)' => \/ job'[s][row'.key].state = "failed"
                                        \/ /\ job'[s][row'.key].state = "none"
                                           /\ Retries("reopen", s)'
  BY DEF FailuresAgree
<1> DEFINE k == row.key
<1>1. row.live /\ row'.key = k /\ k \in Keys
  BY NextRowInStep DEF InStep
<1>2. FailingStep(s, k) /\ (job[s][k].state = "failed" => job'[s][k].state = "failed")
  BY <1>1, NextFailingStep, NextJobStays
<1>3. /\ failing[s][k] # "none" => job[s][k].state = "failed"
      /\ failing[s][k] = "park" => Exhausted(s)
      /\ Exhausted(s) => \/ job[s][k].state = "failed"
                         \/ job[s][k].state = "none" /\ Retries("reopen", s)
  BY <1>1 DEF InStep, FailuresAgree
<1>4. Exhausted(s) => UNCHANGED row /\ Exhausted(s)'
  BY ExhaustedOnce, NextRowInStep DEF InStep, Exhausted, AlreadyExhausted, Holds
<1>5. failing'[s][k] # "none" => job'[s][k].state = "failed"
  BY <1>2, <1>3 DEF FailingStep
<1>6. failing'[s][k] = "park" => Exhausted(s)'
  BY <1>1, <1>2, <1>3, <1>4 DEF FailingStep, Exhausted
<1>7. ASSUME Exhausted(s)'
      PROVE  job'[s][k].state = "failed" \/ (job'[s][k].state = "none" /\ Retries("reopen", s)')
  <2>1. CASE Exhausted(s)
    <3>1. Retries("reopen", s) => Retries("reopen", s)'
      BY <1>1 DEF Retries, people
    <3>2. completing[k] = "none" /\ row.status = "FAILED"
      BY <1>1, <2>1, ExhaustedOnce DEF InStep, GaveUpInOrder, CInv, TypeOK
    <3>3. \A p \in Publishers : worker[p].key = k => worker[p].pc # "publish"
      BY <1>1, <3>2, StageOrder DEF InStep, WorkersInStep
    <3>4. job[s][k].state = "none" => job'[s][k].state = "none"
      BY <1>1, <3>2, <3>3, NextJobStays DEF UploadsFirst
    <3> QED
      BY <1>2, <1>3, <2>1, <3>1, <3>4
  <2>2. CASE ~Exhausted(s)
    <3>1. row'.status = "FAILED" /\ row'.failure = s
      BY <1>7 DEF Exhausted, AlreadyExhausted, Holds
    <3>2. ~UNCHANGED row
      BY <1>7, <2>2 DEF Exhausted, AlreadyExhausted, Holds
    <3>3. \A r \in Stages : ~Advances(r)
      BY <3>1, StageOrder DEF Advances, Stages
    <3>4. GivesUp(s) /\ job[s][k].state = "failed"
      BY <3>1, <3>2, <3>3, NextRowInStep DEF InStep, GivesUp
    <3> QED
      BY <1>2, <3>4
  <2> QED
    BY <2>1, <2>2
<1> QED
  BY <1>1, <1>5, <1>6, <1>7

(* the stages after the failed one stay without jobs,                      *)
LEMMA NextGaveUpInOrder ==
    ASSUME CInv, MaxFaults = 0, MaxCrashes = 0, boot.pc = "done", Forward, InStep,
           UploadsFirst, [Next]_vars, ~Renew
    PROVE  GaveUpInOrder'
<1> SUFFICES ASSUME row'.live
             PROVE  /\ \A s, r \in Stages :
                           Exhausted(r)' /\ job'[s][row'.key].state # "none"
                               => ClaimFrom[r] \in Reached[s]
                    /\ completing'[row'.key] # "none" =>
                           row'.status \in Resting /\ \A s \in Stages : ~Exhausted(s)'
  BY DEF GaveUpInOrder
<1> DEFINE k == row.key
<1>1. /\ row.live /\ row'.key = k /\ k \in Keys
      /\ \/ UNCHANGED row
         \/ \E r \in Stages :
                /\ row.status \in InFlight(r)
                /\ \/ Advances(r) /\ job[r][k].state = "active"
                   \/ GivesUp(r) /\ job[r][k].state = "failed"
  BY NextRowInStep DEF InStep, Forward
<1>2. /\ \A s, r \in Stages :
             Exhausted(r) /\ job[s][k].state # "none" => ClaimFrom[r] \in Reached[s]
      /\ completing[k] # "none" => row.status \in Resting /\ \A s \in Stages : ~Exhausted(s)
  BY <1>1 DEF InStep, GaveUpInOrder
<1>3. UNCHANGED row => \A s \in Stages : Exhausted(s)' = Exhausted(s)
  BY DEF Exhausted, AlreadyExhausted, Holds
<1>4. ASSUME NEW s \in Stages, NEW r \in Stages, Exhausted(r)', job'[s][k].state # "none"
      PROVE  ClaimFrom[r] \in Reached[s]
  <2>1. CASE UNCHANGED row
    <3>1. CASE job[s][k].state # "none"
      BY <1>2, <1>3, <1>4, <2>1, <3>1
    <3>2. CASE job[s][k].state = "none"
      <4>1. completing[k] = "none" /\ row.status = "FAILED"
        BY <1>1, <1>2, <1>3, <1>4, <2>1, ExhaustedOnce DEF CInv, TypeOK
      <4>2. \A p \in Publishers : worker[p].key = k => worker[p].pc # "publish"
        BY <1>1, <4>1, StageOrder DEF InStep, WorkersInStep
      <4> QED
        BY <1>1, <1>4, <3>2, <4>1, <4>2, NextJobStays DEF UploadsFirst
    <3> QED
      BY <3>1, <3>2
  <2>2. CASE \E q \in Stages : row.status \in InFlight(q) /\ Advances(q)
    <3>1. row'.status = "FAILED" /\ row'.failure = r
      BY <1>4 DEF Exhausted, AlreadyExhausted, Holds
    <3> QED
      BY <2>2, <3>1, StageOrder DEF Advances, Stages
  <2>3. CASE \E q \in Stages : row.status \in InFlight(q) /\ GivesUp(q)
    <3>1. GivesUp(r) /\ row.status \in InFlight(r)
      BY <1>4, <2>3 DEF GivesUp, Exhausted, AlreadyExhausted, Holds
    <3>2. row.status \in Reached[s]
      BY <1>1, <1>4, <3>1 DEF GivesUp, Forward, JobsReached
    <3> QED
      BY <3>1, <3>2, StageOrder
  <2> QED
    BY <1>1, <2>1, <2>2, <2>3
<1>5. ASSUME completing'[k] # "none"
      PROVE  row'.status \in Resting /\ \A s \in Stages : ~Exhausted(s)'
  <2>1. CASE completing[k] # "none"
    <3>1. UNCHANGED row
      BY <1>1, <1>2, <2>1, StageOrder
    <3> QED
      BY <1>2, <1>3, <2>1, <3>1
  <2>2. CASE completing[k] = "none"
    <3>1. /\ worker["generation"].pc = "finish" /\ worker["generation"].key = k /\ UNCHANGED row
      BY <1>1, <1>5, <2>2, NextCompleting
    <3>2. job["generation"][k].state = "active" /\ row.status \notin InFlight("generation")
      BY <1>1, <3>1, StageOrder DEF CInv, WorkersAgree, InStep, WorkersInStep
    <3>3. row.status \in Resting
      <4>1. row.status \in Reached["generation"]
        BY <1>1, <3>2, StageOrder DEF Forward, JobsReached
      <4> QED
        BY <3>2, <4>1 DEF Reached, Stages
    <3>4. \A s \in Stages : ~Exhausted(s)
      <4>1. SUFFICES ASSUME NEW s \in Stages, Exhausted(s) PROVE FALSE
        OBVIOUS
      <4>2. ClaimFrom[s] \in Reached["generation"]
        BY <1>2, <3>2, <4>1, StageOrder
      <4>3. s = "generation"
        BY <4>2 DEF Reached, Stages, InFlight, ClaimFrom, ClaimTo, Resting
      <4> QED
        BY <1>1, <3>2, <4>1, <4>3 DEF InStep, FailuresAgree
    <3> QED
      BY <1>3, <3>1, <3>3, <3>4
  <2> QED
    BY <2>1, <2>2
<1> QED
  BY <1>1, <1>4, <1>5

(* the workers keep to the stage of the row,                               *)
LEMMA NextWorkersInStep ==
    ASSUME CInv, CInv', MaxFaults = 0, MaxCrashes = 0, boot.pc = "done", Forward, InStep,
           UploadsFirst, [Next]_vars, ~Renew
    PROVE  WorkersInStep'
<1> SUFFICES ASSUME row'.live, NEW s \in Stages, worker'[s].key = row'.key
             PROVE  /\ worker'[s].pc # "park"
                    /\ worker'[s].pc = "claim" => row'.status = ClaimFrom[s]
                    /\ worker'[s].pc = "work" => row'.status = ClaimTo[s]
                    /\ worker'[s].pc = "finish" => row'.status \notin InFlight(s)
                    /\ worker'[s].pc = "publish" =>
                           /\ s \in Publishers /\ row'.status = ClaimFrom[NextStage[s]]
                           /\ job'[NextStage[s]][row'.key].state = "none"
  BY DEF WorkersInStep
<1> DEFINE k == row.key
<1>1. /\ row.live /\ row'.key = k /\ k \in Keys
      /\ \/ UNCHANGED row
         \/ \E r \in Stages :
                /\ row.status \in InFlight(r)
                /\ \/ Advances(r) /\ job[r][k].state = "active"
                   \/ GivesUp(r) /\ job[r][k].state = "failed"
  BY NextRowInStep DEF InStep, Forward
<1>2. worker[s].key = k =>
          /\ worker[s].pc # "park"
          /\ worker[s].pc = "claim" => row.status = ClaimFrom[s]
          /\ worker[s].pc = "work" => row.status = ClaimTo[s]
          /\ worker[s].pc = "finish" => row.status \notin InFlight(s)
          /\ worker[s].pc = "publish" =>
                 /\ s \in Publishers /\ row.status = ClaimFrom[NextStage[s]]
                 /\ job[NextStage[s]][k].state = "none"
  BY <1>1 DEF InStep, WorkersInStep
<1>3. CASE Advances(s)
  <2>1. \A p \in Publishers : row.status = ClaimTo[p] => job[NextStage[p]][k].state = "none"
    BY <1>1, StageOrder DEF Forward, JobsReached
  <2> QED
    BY <1>1, <1>3, <2>1, StageOrder DEF Advances
<1>4. CASE worker'[s] = worker[s] /\ worker[s].pc # "idle"
  <2>1. worker[s].key = k /\ job[s][k].state = "active"
    BY <1>1, <1>4 DEF CInv, WorkersAgree
  <2>2. CASE worker[s].pc \in {"claim", "work"}
    <3>1. row.status \in InFlight(s) /\ ~Advances(s) /\ ~GivesUp(s)
      BY <1>2, <1>3, <1>4, <2>1, <2>2, StageOrder DEF Advances, GivesUp, InStep, FailuresAgree
    <3>2. UNCHANGED row
      BY <1>1, <2>1, <3>1, StageOrder
    <3>3. worker'[s].pc = worker[s].pc /\ row'.status = row.status
      BY <1>4, <3>2
    <3> QED
      BY <1>2, <2>1, <2>2, <3>3
  <2>3. CASE worker[s].pc = "finish"
    <3>1. row'.status \notin InFlight(s)
      BY <1>2, <2>1, <2>3, NextInStage DEF InStage, Forward
    <3> QED
      BY <1>4, <2>3, <3>1
  <2>4. CASE worker[s].pc = "publish"
    <3>1. /\ s \in Publishers /\ row.status = ClaimFrom[NextStage[s]]
          /\ NextStage[s] \in Stages /\ job[NextStage[s]][k].state = "none"
      BY <1>2, <2>1, <2>4, StageOrder
    <3>2. UNCHANGED row
      BY <1>1, <3>1, StageOrder
    <3>3. completing[k] = "none"
      BY <1>1, <3>1, StageOrder DEF InStep, GaveUpInOrder, CInv, TypeOK
    <3>4. \A p \in Publishers : NextStage[p] = NextStage[s] => p = s
      BY <3>1 DEF Publishers, NextStage
    <3>5. upload[k].pc = "none"
      BY <1>1, <3>1 DEF UploadsFirst, Publishers, NextStage, ClaimFrom, Stages
    <3>6. job'[NextStage[s]][k].state = "none"
      BY <1>1, <1>4, <2>4, <3>1, <3>3, <3>4, <3>5, NextJobStays
    <3> QED
      BY <1>1, <1>4, <2>4, <3>1, <3>2, <3>6
  <2> QED
    BY <1>2, <1>4, <2>1, <2>2, <2>3, <2>4 DEF CInv, TypeOK, Worker
<1>5. CASE worker[s].pc = "idle" /\ worker'[s].pc = Accept(s, worker'[s].key) /\ UNCHANGED row
  <2>1. worker'[s].pc # "idle" => job'[s][k].state = "active"
    BY <1>1 DEF CInv, WorkersAgree
  <2>2. ~Exhausted(s) \/ worker'[s].pc = "idle"
    BY <1>1, <2>1, NextJobStays DEF InStep, FailuresAgree
  <2>3. Exhausted(s) <=> AlreadyExhausted(s, k)
    BY DEF Exhausted
  <2> QED
    BY <1>1, <1>5, <2>2, <2>3, StageOrder DEF Accept, Holds
<1>6. CASE /\ worker'[s].key = worker[s].key /\ worker'[s].pc = "finish" /\ UNCHANGED row
           /\ \/ worker[s].pc = "claim" /\ ~Holds(worker[s].key, {ClaimFrom[s]})
              \/ worker[s].pc = "work" /\ ~Holds(worker[s].key, {ClaimTo[s]})
              \/ worker[s].pc = "publish" /\ s \in Publishers
  BY <1>1, <1>2, <1>6, StageOrder DEF Holds
<1>7. Advances(s) \/ WorkerStays(s)
  BY NextWorker DEF Forward
<1> QED
  BY <1>3, <1>4, <1>5, <1>6, <1>7 DEF WorkerStays

(* a failed stage keeps its letter and its job,                            *)
LEMMA NextExhausted ==
    ASSUME CInv, MaxFaults = 0, MaxCrashes = 0, boot.pc = "done", Forward, InStep,
           UploadsFirst, [Next]_vars, ~Renew, row'.live, NEW s \in Stages, Exhausted(s)
    PROVE  /\ UNCHANGED row /\ Exhausted(s)' /\ row.key \in Keys
           /\ failing[s][row.key] = "none" => failing'[s][row.key] = "none"
           /\ job[s][row.key].state \in {"none", "failed"} =>
                  job'[s][row.key].state = job[s][row.key].state
<1>1. row.live /\ row.key \in Keys /\ row.status = "FAILED" /\ UNCHANGED row
  BY ExhaustedOnce, NextRowInStep DEF InStep, Forward
<1>2. Exhausted(s)'
  BY <1>1 DEF Exhausted, AlreadyExhausted, Holds
<1>3. job[s][row.key].state \notin {"waiting", "active"}
  BY <1>1 DEF InStep, FailuresAgree
<1>4. failing[s][row.key] = "none" => failing'[s][row.key] = "none"
  BY <1>1, <1>3, NextFailingStep DEF FailingStep
<1>5. completing[row.key] = "none"
  BY <1>1 DEF InStep, GaveUpInOrder, CInv, TypeOK
<1>6. \A p \in Publishers : worker[p].key = row.key => worker[p].pc # "publish"
  BY <1>1, StageOrder DEF InStep, WorkersInStep
<1>7. job[s][row.key].state \in {"none", "failed"} =>
          job'[s][row.key].state = job[s][row.key].state
  BY <1>1, <1>5, <1>6, NextJobStays DEF UploadsFirst
<1> QED
  BY <1>1, <1>2, <1>4, <1>7

(* a letter stands for the failure, or its retry is past the row,          *)
LEMMA NextLettersStand ==
    ASSUME CInv, MaxFaults = 0, MaxCrashes = 0, boot.pc = "done", Forward, InStep, LettersOnce,
           UploadsFirst, [Next]_vars, ~Renew, UNCHANGED people
    PROVE  LettersStand'
<1> SUFFICES ASSUME row'.live, NEW s \in Stages, HasDeadLetter(s, row.key)'
             PROVE  \/ Exhausted(s)' /\ failing'[s][row'.key] = "none"
                    \/ Retries("publish", s)' \/ Retries("drop", s)'
  <2>1. row'.live => row'.key = row.key
    BY NextRowInStep DEF InStep, Forward
  <2> QED
    BY <2>1 DEF LettersStand, HasDeadLetter
<1>1. row.live /\ row'.key = row.key /\ row.key \in Keys
  BY NextRowInStep DEF InStep, Forward
<1>2. \A pc : Retries(pc, s) => Retries(pc, s)'
  BY <1>1 DEF Retries, people
<1>3. CASE HasDeadLetter(s, row.key)
  BY <1>1, <1>2, <1>3, NextExhausted DEF InStep, LettersStand
<1>4. CASE failing[s][row.key] = "park" /\ failing'[s][row.key] = "none"
  BY <1>1, <1>4, NextExhausted DEF InStep, FailuresAgree
<1>5. HasDeadLetter(s, row.key) \/ (failing[s][row.key] = "park" /\ failing'[s][row.key] = "none")
  BY <1>1, NextLetters DEF HasDeadLetter
<1> QED
  BY <1>3, <1>4, <1>5

(* and what a retry saw stays so.                                          *)
LEMMA NextRetriesStand ==
    ASSUME CInv, MaxFaults = 0, MaxCrashes = 0, boot.pc = "done", Forward, InStep,
           UploadsFirst, [Next]_vars, ~Renew, UNCHANGED people
    PROVE  RetriesStand'
<1> SUFFICES ASSUME row'.live, NEW s \in Stages
             PROVE  /\ Retries("clean", s)' =>
                           /\ Exhausted(s)' /\ failing'[s][row'.key] = "none"
                           /\ job'[s][row'.key].state = "failed"
                    /\ Retries("reopen", s)' => Exhausted(s)' /\ job'[s][row'.key].state = "none"
                    /\ Retries("publish", s)' =>
                           /\ row'.status = ReopenTo[s] /\ job'[s][row'.key].state = "none"
                           /\ \A p \in Publishers : ~(/\ NextStage[p] = s
                                                      /\ worker'[p].key = row'.key
                                                      /\ worker'[p].pc = "publish")
  BY DEF RetriesStand
<1> DEFINE k == row.key
<1>1. /\ row.live /\ row'.key = k /\ k \in Keys
      /\ \/ UNCHANGED row
         \/ \E r \in Stages :
                /\ row.status \in InFlight(r)
                /\ \/ Advances(r) /\ job[r][k].state = "active"
                   \/ GivesUp(r) /\ job[r][k].state = "failed"
  BY NextRowInStep DEF InStep, Forward
<1>2. \A pc : Retries(pc, s)' => Retries(pc, s)
  BY <1>1 DEF Retries, people
<1>3. /\ Retries("clean", s) => /\ Exhausted(s) /\ failing[s][k] = "none"
                                /\ job[s][k].state = "failed"
      /\ Retries("reopen", s) => Exhausted(s) /\ job[s][k].state = "none"
      /\ Retries("publish", s) =>
             /\ row.status = ReopenTo[s] /\ job[s][k].state = "none"
             /\ \A p \in Publishers : ~(/\ NextStage[p] = s /\ worker[p].key = k
                                        /\ worker[p].pc = "publish")
  BY <1>1 DEF InStep, RetriesStand
<1>4. Retries("clean", s)' => /\ Exhausted(s)' /\ failing'[s][k] = "none"
                              /\ job'[s][k].state = "failed"
  BY <1>1, <1>2, <1>3, NextExhausted
<1>5. Retries("reopen", s)' => Exhausted(s)' /\ job'[s][k].state = "none"
  BY <1>1, <1>2, <1>3, NextExhausted
<1>6. ASSUME Retries("publish", s)'
      PROVE  /\ row'.status = ReopenTo[s] /\ job'[s][k].state = "none"
             /\ \A p \in Publishers : ~(/\ NextStage[p] = s /\ worker'[p].key = k
                                        /\ worker'[p].pc = "publish")
  <2>1. /\ row.status = ReopenTo[s] /\ job[s][k].state = "none"
        /\ \A p \in Publishers : ~(/\ NextStage[p] = s /\ worker[p].key = k
                                   /\ worker[p].pc = "publish")
    BY <1>2, <1>3, <1>6
  <2>2. row.status \in InFlight(s)
    BY <2>1, ReopenedStage
  <2>3. UNCHANGED row
    BY <1>1, <2>1, <2>2, StageOrder
  <2>4. completing[k] = "none"
    BY <1>1, <2>1, ReopenedStage DEF InStep, GaveUpInOrder
  <2>5. job'[s][k].state = "none"
    <3>1. row.status # "UPLOADED"
      BY <2>1 DEF ReopenTo, ClaimFrom, ClaimTo, Stages
    <3> QED
      BY <1>1, <2>1, <2>4, <3>1, NextJobStays DEF UploadsFirst
  <2>6. ASSUME NEW p \in Publishers, NextStage[p] = s, worker'[p].key = k, worker'[p].pc = "publish"
        PROVE  FALSE
    <3>1. ~Advances(p)
      BY <2>3, StageOrder DEF Advances
    <3>2. WorkerStays(p)
      BY <3>1, NextWorker, StageOrder DEF Forward
    <3>3. \A l : Accept(p, l) # "publish"
      BY DEF Accept
    <3> QED
      BY <2>1, <2>6, <3>2, <3>3 DEF WorkerStays
  <2> QED
    BY <2>1, <2>3, <2>5, <2>6
<1> QED
  BY <1>1, <1>4, <1>5, <1>6

(* The upload stays ahead of the jobs.                                     *)
LEMMA NextUploadsFirst ==
    ASSUME CInv, MaxFaults = 0, MaxCrashes = 0, boot.pc = "done", Repeats = FALSE,
           Forward, FailuresAgree, UploadsFirst, [Next]_vars
    PROVE  UploadsFirst'
<1> SUFFICES ASSUME row'.live, upload'[row'.key].pc # "none"
             PROVE  /\ row'.status = "UPLOADED"
                    /\ job'["text-extraction"][row'.key].state = "none"
  BY DEF UploadsFirst
<1> DEFINE s == "text-extraction"
<1>0. /\ s \in Stages /\ ClaimFrom[s] = "UPLOADED"
      /\ upload \in [Keys -> Upload]
  BY DEF Stages, ClaimFrom, CInv, TypeOK
<1>1. CASE Renew
  BY <1>0, <1>1, UploadFresh DEF Forward
<1>2. CASE ~Renew
  <2>1. /\ row.live /\ row'.key = row.key /\ row.key \in Keys
        /\ \/ UNCHANGED row
           \/ \E r \in Stages :
                  /\ row.status \in InFlight(r)
                  /\ job[r][row.key].state # "none"
    BY <1>2, NextRowInStep DEF Forward
  <2>2. upload[row.key].pc # "none"
    <3>1. ~RepeatUpload /\ ~Crash
      BY DEF RepeatUpload, Crash, CInv, TypeOK
    <3>2. CASE UNCHANGED upload
      BY <2>1, <3>2
    <3>3. ASSUME NEW k \in Keys, SaveFile(k) \/ EnqueueUpload(k) \/ EnqueueUploadFails(k)
          PROVE  upload[row.key].pc # "none"
      BY <1>0, <2>1, <3>3 DEF SaveFile, EnqueueUpload, EnqueueUploadFails
    <3> QED
      BY <1>2, <3>1, <3>2, <3>3, ProcessLeavesUploads
         DEF Next, UploadStep, Expire, process, vars
  <2>3. row.status = "UPLOADED" /\ job[s][row.key].state = "none"
    BY <2>1, <2>2 DEF UploadsFirst
  <2>4. UNCHANGED row
    <3>1. \A r \in Stages : row.status \in InFlight(r) => r = s
      BY <1>0, <2>3, StageOrder
    <3> QED
      BY <2>1, <2>3, <3>1
  <2>5. job'[s][row.key].state = "none"
    <3>1. JobStep(s, row.key)
      BY <1>0, <2>1, NextJobs
    <3>2. \A p \in Publishers : NextStage[p] # s
      BY DEF Publishers, NextStage
    <3>3. ~Publishes(s, row.key)
      BY <2>1, <3>2 DEF Publishes
    <3> QED
      BY <2>3, <3>1, <3>3 DEF JobStep
  <2> QED
    BY <2>1, <2>3, <2>4, <2>5
<1> QED
  BY <1>1, <1>2

(* Parking is left to the workers of earlier lifecycles.                   *)
LEMMA ParkInStep ==
    ASSUME CInv, Forward, InStep, LettersOnce, FailuresPast,
           NEW r \in Stages, Park(r), UNCHANGED people
    PROVE  InStep' /\ LettersOnce' /\ FailuresPast'
<1>1. /\ UNCHANGED <<row, job, failing, completing, boot>>
      /\ worker[r].pc = "park" /\ worker[r].key \in Keys /\ MoveToDlq(r, worker[r].key)
      /\ \A s \in Stages : worker'[s].key = worker[s].key
      /\ \A s \in Stages \ {r} : worker'[s] = worker[s]
      /\ worker'[r].pc = "finish"
  BY DEF Park, At, Goto, CInv, TypeOK, Worker
<1>2. row.live => worker[r].key # row.key
  BY <1>1 DEF InStep, WorkersInStep
<1>3. /\ LettersOnce'
      /\ \A s \in Stages, k \in Keys :
             HasDeadLetter(s, k)' => HasDeadLetter(s, k) \/ (s = r /\ k = worker[r].key)
  BY <1>1, MoveToDlqStep
<1>4. FailuresPast'
  BY <1>1, <1>3 DEF FailuresPast, Forward, ProcessPast
<1>5. /\ \A s : Exhausted(s)' = Exhausted(s)
      /\ \A pc, s : Retries(pc, s)' = Retries(pc, s)
      /\ row.key \in Keys
  BY <1>1 DEF Exhausted, AlreadyExhausted, Holds, Retries, people, CInv, TypeOK, StoreTypeOK, Row
<1>6. FailuresAgree' /\ GaveUpInOrder'
  BY <1>1, <1>5 DEF InStep, FailuresAgree, GaveUpInOrder
<1>7. WorkersInStep'
  BY <1>1, <1>2 DEF InStep, WorkersInStep
<1>8. LettersStand'
  <2> SUFFICES ASSUME row'.live, NEW s \in Stages, HasDeadLetter(s, row.key)'
               PROVE  \/ Exhausted(s)' /\ failing'[s][row'.key] = "none"
                      \/ Retries("publish", s)' \/ Retries("drop", s)'
    BY <1>1 DEF LettersStand, HasDeadLetter
  <2>1. HasDeadLetter(s, row.key)
    BY <1>1, <1>2, <1>3, <1>5
  <2> QED
    BY <1>1, <1>5, <2>1 DEF InStep, LettersStand
<1>9. RetriesStand'
  BY <1>1, <1>2, <1>5, StageOrder DEF InStep, RetriesStand
<1> QED
  BY <1>3, <1>4, <1>6, <1>7, <1>8, <1>9 DEF InStep

-------------------------------------------------------------------------------
(* The steps of a retry, when nobody else retries.                         *)

(* Dropping a letter drops all that the stage has.                         *)
LEMMA DroppedLetter ==
    ASSUME CInv, LettersOnce, NEW s \in Stages, NEW k \in Keys, HasDeadLetter(s, k),
           deadLetters' = [deadLetters EXCEPT ![k] = Without(deadLetters[k], s)]
    PROVE  /\ LettersOnce' /\ ~HasDeadLetter(s, k)'
           /\ \A r \in Stages, l \in Keys : HasDeadLetter(r, l)' => HasDeadLetter(r, l)
<1> DEFINE letters == deadLetters[k]
           pos == CHOOSE i \in DOMAIN letters : letters[i] = s
           from(i) == IF i < pos THEN i ELSE i + 1
           rest == Without(letters, s)
<1>1. letters \in Seq(Stages) /\ deadLetters \in [Keys -> Seq(Stages)]
  BY DEF CInv, TypeOK, StoreTypeOK
<1>2. pos \in DOMAIN letters /\ letters[pos] = s
  BY DEF HasDeadLetter
<1>3. Len(letters) \in Nat /\ DOMAIN letters = 1 .. Len(letters)
  BY <1>1
<1>4. pos \in 1 .. Len(letters)
  BY <1>2, <1>3
<1> HIDE DEF pos
<1>5. rest = [i \in 1 .. Len(letters) - 1 |-> IF i < pos THEN letters[i] ELSE letters[i + 1]]
  BY DEF Without, pos
<1> HIDE DEF letters, rest
<1>6. /\ DOMAIN rest = 1 .. Len(letters) - 1
      /\ \A i \in DOMAIN rest : /\ rest[i] = letters[from(i)]
                                /\ from(i) \in DOMAIN letters /\ from(i) # pos
  BY <1>3, <1>4, <1>5
<1>7. \A i, j \in DOMAIN rest : from(i) = from(j) => i = j
  BY <1>3, <1>4, <1>6
<1> HIDE DEF from
<1>8. \A i, j \in DOMAIN letters : letters[i] = letters[j] => i = j
  BY DEF LettersOnce, letters
<1>9. /\ \A i, j \in DOMAIN rest : rest[i] = rest[j] => i = j
      /\ \A i \in DOMAIN rest : rest[i] # s
  BY <1>2, <1>6, <1>7, <1>8
<1>10. deadLetters'[k] = rest /\ \A l \in Keys \ {k} : deadLetters'[l] = deadLetters[l]
  BY <1>1 DEF letters, rest
<1>11. LettersOnce'
  BY <1>9, <1>10 DEF LettersOnce
<1>12. ~HasDeadLetter(s, k)' /\ \A r \in Stages : HasDeadLetter(r, k)' => HasDeadLetter(r, k)
  BY <1>6, <1>9, <1>10 DEF HasDeadLetter, letters
<1>13. \A r \in Stages, l \in Keys \ {k} : HasDeadLetter(r, l)' => HasDeadLetter(r, l)
  BY <1>10 DEF HasDeadLetter
<1> QED
  BY <1>11, <1>12, <1>13

(* One retry at a time.                                                    *)
Alone == \A u, v \in Retriers : u = v

(* What it is about is then what any retry is about.                       *)
LEMMA OneRetry ==
    ASSUME Alone, NEW u \in Retriers
    PROVE  /\ \A pc, s : Retries(pc, s) <=> /\ retrier[u].pc = pc /\ retrier[u].stage = s
                                            /\ retrier[u].key = row.key
           /\ \A pc, s : Retries(pc, s)' <=> /\ retrier'[u].pc = pc /\ retrier'[u].stage = s
                                             /\ retrier'[u].key = row'.key
<1>1. \A v \in Retriers : v = u
  BY DEF Alone
<1>2. \A pc, s : Retries(pc, s) <=> /\ retrier[u].pc = pc /\ retrier[u].stage = s
                                   /\ retrier[u].key = row.key
  BY <1>1 DEF Retries
<1>3. \A pc, s : Retries(pc, s)' <=> /\ retrier'[u].pc = pc /\ retrier'[u].stage = s
                                    /\ retrier'[u].key = row'.key
  BY <1>1 DEF Retries
<1> QED
  BY <1>2, <1>3

(* Nothing new is stranded.                                                *)
NoneLost ==
    \A s \in Stages : /\ GivenUp(s)' => GivenUp(s)
                      /\ Orphaned(s)' /\ ~Requested(s)' => Orphaned(s) /\ ~Requested(s)

(* A retry of an earlier lifecycle, or one that is over, touches nothing   *)
(* of the current one.                                                     *)
LEMMA ElsewhereInStep ==
    ASSUME CInv, boot.pc = "done", Forward, InStep, JobsPast', ProcessPast',
           UNCHANGED <<row, process, reviewer>>,
           row.live => \A s \in Stages :
               /\ job'[s][row.key] = job[s][row.key]
               /\ HasDeadLetter(s, row.key)' => HasDeadLetter(s, row.key)
               /\ \A pc \in {"clean", "reopen", "publish", "drop"} :
                      Retries(pc, s)' <=> Retries(pc, s)
    PROVE  Forward' /\ InStep' /\ NoneLost
<1>1. /\ UNCHANGED <<row, worker, failing, completing, boot, upload>> /\ Booting' = Booting
      /\ \A s : /\ Exhausted(s)' = Exhausted(s) /\ StillToCome(s)' = StillToCome(s)
                /\ InStage(s)' = InStage(s)
  BY DEF process, Booting, Exhausted, AlreadyExhausted, Holds, StillToCome, InStage
<1>2. Forward'
  BY <1>1 DEF Forward, NothingTakenBack, JobsReached, ClaimsHold
<1>3. FailuresAgree' /\ GaveUpInOrder'
  BY <1>1 DEF InStep, FailuresAgree, GaveUpInOrder
<1>4. WorkersInStep'
  BY <1>1, StageOrder DEF InStep, WorkersInStep
<1>5. LettersStand'
  BY <1>1 DEF InStep, LettersStand, HasDeadLetter
<1>6. RetriesStand'
  BY <1>1 DEF InStep, RetriesStand
<1>7. \A s \in Stages : GivenUp(s)' => GivenUp(s)
  BY <1>1 DEF GivenUp, WillFail, InStage
<1>8. \A s \in Stages : Orphaned(s)' => Orphaned(s)
  BY <1>1 DEF Orphaned, AwaitsUpload, WillPublish, WillScan, InStage
<1>9. \A s \in Stages : InStage(s) /\ Requested(s) => Requested(s)'
  <2>1. \A s : Requested(s) <=> \/ Retries("publish", s)
                                \/ s = "generation" /\ \E u \in Reviewers :
                                       /\ reviewer[u].pc = "publish" /\ reviewer[u].key = row.key
    BY DEF Requested, Retries
  <2>2. \A s : Requested(s)' <=> \/ Retries("publish", s)'
                                 \/ s = "generation" /\ \E u \in Reviewers :
                                        /\ reviewer[u].pc = "publish" /\ reviewer[u].key = row.key
    BY <1>1 DEF Requested, Retries
  <2> QED
    BY <2>1, <2>2 DEF InStage
<1>10. \A s \in Stages : Orphaned(s) => InStage(s)
  BY DEF Orphaned
<1> QED
  BY <1>2, <1>3, <1>4, <1>5, <1>6, <1>7, <1>8, <1>9, <1>10 DEF InStep, NoneLost

(* A retry begins with the letter of the stage that failed,                *)
LEMMA StartRetryInStep ==
    ASSUME CInv, PeopleOK, boot.pc = "done", Forward, InStep, Alone,
           NEW u \in Retriers, StartRetry(u)
    PROVE  Forward' /\ InStep' /\ NoneLost
<1> DEFINE k == row.key
           letters == deadLetters[k]
           s0 == letters[Len(letters)]
<1>1. /\ UNCHANGED vars /\ UNCHANGED reviewer /\ row.live /\ k \in Keys
      /\ letters # <<>> /\ retrier[u].pc = "idle"
      /\ retrier'[u] = [pc |-> "clean", stage |-> s0, key |-> k]
  BY DEF StartRetry, Retrying, PeopleOK, CInv, TypeOK, StoreTypeOK, Row
<1>2. UNCHANGED <<row, job, deadLetters, worker, failing, completing, boot, upload>>
  BY <1>1 DEF vars, store, process
<1>3. s0 \in Stages /\ HasDeadLetter(s0, k)
  <2>1. letters \in Seq(Stages)
    BY <1>1 DEF CInv, TypeOK, StoreTypeOK
  <2>2. Len(letters) \in DOMAIN letters /\ s0 \in Stages
    BY <1>1, <2>1
  <2> QED
    BY <2>2 DEF HasDeadLetter
<1> HIDE DEF letters, s0
<1>4. \A pc \in {"clean", "reopen", "publish", "drop"} : \A s : ~Retries(pc, s)
  BY <1>1, OneRetry
<1>5. \A pc, s : Retries(pc, s)' <=> pc = "clean" /\ s = s0
  BY <1>1, <1>2, OneRetry
<1>6. \A s \in Stages : HasDeadLetter(s, k) => Exhausted(s) /\ failing[s][k] = "none"
  BY <1>1, <1>4 DEF InStep, LettersStand
<1>7. \A s \in Stages : Exhausted(s) => job[s][k].state = "failed"
  BY <1>1, <1>4 DEF InStep, FailuresAgree
<1>8. /\ \A s : Exhausted(s)' = Exhausted(s)
      /\ \A s \in Stages : (GivenUp(s)' => GivenUp(s)) /\ (Orphaned(s)' => Orphaned(s))
  BY <1>2 DEF Exhausted, AlreadyExhausted, Holds, GivenUp, WillFail, InStage, Orphaned,
              AwaitsUpload, WillPublish, WillScan, StillToCome, Booting
<1>9. JobsPast' /\ ProcessPast'
  BY <1>2 DEF Forward, JobsPast, ProcessPast, UploadsPast
<1>10. Forward'
  BY <1>2, <1>9 DEF Forward, NothingTakenBack, JobsReached, ClaimsHold, Booting
<1>11. FailuresAgree' /\ GaveUpInOrder'
  BY <1>2, <1>7, <1>8 DEF InStep, FailuresAgree, GaveUpInOrder
<1>12. WorkersInStep'
  BY <1>2 DEF InStep, WorkersInStep
<1>13. LettersStand'
  BY <1>2, <1>6, <1>8 DEF LettersStand, HasDeadLetter
<1>14. RetriesStand'
  BY <1>2, <1>3, <1>5, <1>6, <1>7, <1>8 DEF RetriesStand
<1>15. \A s \in Stages : Requested(s) => Requested(s)'
  <2>1. \A v \in Retriers : retrier[v].pc # "publish"
    BY <1>1 DEF Alone
  <2> QED
    BY <1>1, <1>2, <2>1 DEF Requested
<1> QED
  BY <1>8, <1>11, <1>12, <1>14, <1>15, <1>10, <1>13 DEF InStep, NoneLost

(* takes away the failed job, which nobody else will,                      *)
LEMMA CleanFailedJobInStep ==
    ASSUME CInv, PeopleOK, boot.pc = "done", Forward, InStep, Alone, JobsPast', ProcessPast',
           NEW u \in Retriers, CleanFailedJob(u)
    PROVE  Forward' /\ InStep' /\ NoneLost
<1> DEFINE t == retrier[u].stage
           l == retrier[u].key
           k == row.key
<1>1. /\ UNCHANGED <<row, deadLetters, process, reviewer>>
      /\ UNCHANGED <<worker, failing, completing, boot, upload>>
      /\ retrier[u].pc = "clean" /\ retrier'[u] = [retrier[u] EXCEPT !.pc = "reopen"]
      /\ retrier[u] \in Retrier /\ t \in Stages /\ l \in Keys /\ k \in Keys
      /\ job' = IF job[t][l].state = "failed" THEN [job EXCEPT ![t][l] = NoJob] ELSE job
  BY DEF CleanFailedJob, Retrying, process, PeopleOK, Retrier, CInv, TypeOK, StoreTypeOK, Row
<1>2. /\ retrier'[u].pc = "reopen" /\ retrier'[u].stage = t /\ retrier'[u].key = l
      /\ NoJob.state = "none" /\ job \in JobTable
  BY <1>1 DEF Retrier, NoJob, CInv, TypeOK, StoreTypeOK, JobTable
<1>3. /\ \A pc, s : Retries(pc, s) <=> pc = "clean" /\ s = t /\ l = k
      /\ \A pc, s : Retries(pc, s)' <=> pc = "reopen" /\ s = t /\ l = k
  <2>1. /\ row'.key = k /\ retrier[u].pc = "clean" /\ retrier'[u].pc = "reopen"
        /\ retrier'[u].stage = t /\ retrier'[u].key = l
    BY <1>1, <1>2
  <2> QED
    BY <2>1, OneRetry
<1>4. CASE ~(row.live /\ l = k)
  <2>1. row.live => \A s \in Stages :
            /\ job'[s][k] = job[s][k]
            /\ HasDeadLetter(s, row.key)' => HasDeadLetter(s, row.key)
            /\ \A pc \in {"clean", "reopen", "publish", "drop"} :
                   Retries(pc, s)' <=> Retries(pc, s)
    BY <1>1, <1>2, <1>3, <1>4 DEF HasDeadLetter, JobTable
  <2> QED
    BY <1>1, <2>1, ElsewhereInStep
<1>5. CASE row.live /\ l = k
  <2>1. Exhausted(t) /\ failing[t][k] = "none" /\ job[t][k].state = "failed"
    BY <1>1, <1>3, <1>5 DEF InStep, RetriesStand
  <2>2. row.status = "FAILED" /\ \A s \in Stages : Exhausted(s) => s = t
    BY <1>1, <2>1, ExhaustedOnce
  <2>3. /\ job'[t][k].state = "none"
        /\ \A s \in Stages \ {t} : job'[s][k] = job[s][k]
        /\ \A s : Exhausted(s)' = Exhausted(s)
    BY <1>1, <1>2, <1>5, <2>1 DEF JobTable, Exhausted, AlreadyExhausted, Holds
  <2>4. Forward'
    BY <1>1, <2>3 DEF Forward, NothingTakenBack, JobsReached, ClaimsHold, Booting
  <2>5. FailuresAgree' /\ GaveUpInOrder'
    BY <1>1, <1>3, <1>5, <2>1, <2>2, <2>3 DEF InStep, FailuresAgree, GaveUpInOrder
  <2>6. WorkersInStep'
    BY <1>1, <2>2, <2>3, StageOrder DEF InStep, WorkersInStep
  <2>7. LettersStand'
    BY <1>1, <1>3, <2>3 DEF InStep, LettersStand, HasDeadLetter
  <2>8. RetriesStand'
    <3>1. \A s \in Stages : /\ ~Retries("clean", s)' /\ ~Retries("publish", s)'
                            /\ Retries("reopen", s)' => s = t
      BY <1>3
    <3>2. \A s \in Stages : s = t => Exhausted(s)' /\ job'[s][row'.key].state = "none"
      BY <1>1, <2>1, <2>3
    <3> QED
      BY <3>1, <3>2 DEF RetriesStand
  <2>9. \A s \in Stages : ~GivenUp(s)' /\ ~Orphaned(s)'
    BY <1>1, <2>2, StageOrder DEF GivenUp, Orphaned, InStage
  <2> QED
    BY <2>4, <2>5, <2>6, <2>7, <2>8, <2>9 DEF InStep, NoneLost
<1> QED
  BY <1>4, <1>5

(* takes the failure of the row back, which is still the one it saw,       *)
LEMMA ReopenInStep ==
    ASSUME CInv, PeopleOK, boot.pc = "done", Forward, InStep, Alone, JobsPast', ProcessPast',
           NEW u \in Retriers, Reopen(u)
    PROVE  Forward' /\ InStep' /\ NoneLost
<1> DEFINE t == retrier[u].stage
           l == retrier[u].key
           k == row.key
<1>1. /\ UNCHANGED <<job, deadLetters, process, reviewer>>
      /\ UNCHANGED <<worker, failing, completing, boot, upload>>
      /\ retrier[u].pc = "reopen"
      /\ retrier[u] \in Retrier /\ t \in Stages /\ l \in Keys /\ k \in Keys /\ row \in Row
  BY DEF Reopen, Retrying, process, PeopleOK, Retrier, CInv, TypeOK, StoreTypeOK, Row
<1>2. /\ retrier'[u].pc \in {"publish", "drop"}
      /\ retrier'[u].stage = t /\ retrier'[u].key = l
  <2>1. PICK pc \in {"publish", "drop"} :
            retrier' = [retrier EXCEPT ![u] = [retrier[u] EXCEPT !.pc = pc]]
    BY DEF Reopen
  <2> QED
    BY <1>1, <2>1 DEF PeopleOK, Retrier
<1>3. CASE ~(row.live /\ l = k)
  <2>1. UNCHANGED row
    BY <1>3 DEF Reopen, Holds
  <2>2. row.live => \A s \in Stages :
            /\ HasDeadLetter(s, row.key)' => HasDeadLetter(s, row.key)
            /\ \A pc \in {"clean", "reopen", "publish", "drop"} :
                   Retries(pc, s)' <=> Retries(pc, s)
    BY <1>1, <1>2, <1>3, <2>1, OneRetry DEF HasDeadLetter
  <2> QED
    BY <1>1, <2>1, <2>2, ElsewhereInStep
<1>4. CASE row.live /\ l = k
  <2>1. \A pc, s : Retries(pc, s) <=> pc = "reopen" /\ s = t
    BY <1>1, <1>4, OneRetry
  <2>2. Exhausted(t) /\ job[t][k].state = "none"
    BY <1>1, <1>4, <2>1 DEF InStep, RetriesStand
  <2>3. row.status = "FAILED" /\ \A s \in Stages : Exhausted(s) => s = t
    BY <1>1, <2>2, ExhaustedOnce
  <2>4. ReopenTo[t] \in InFlight(t) /\ ReopenTo[t] # "FAILED"
    BY <1>1, ReopenedStage
  <2>5. /\ row' = [row EXCEPT !.status = ReopenTo[t], !.failure = "none"]
        /\ retrier' = [retrier EXCEPT ![u].pc = "publish"]
    BY <1>4, <2>3, <2>4 DEF Reopen, Holds
  <2>6. /\ row'.live /\ row'.key = k /\ row'.status = ReopenTo[t] /\ row'.failure = "none"
        /\ retrier'[u].pc = "publish"
    BY <1>1, <1>4, <2>5 DEF Row, PeopleOK, Retrier
  <2>7. \A pc, s : Retries(pc, s)' <=> pc = "publish" /\ s = t
    BY <1>2, <1>4, <2>6, OneRetry
  <2>8. \A s \in Stages : ~Exhausted(s)'
    BY <2>4, <2>6 DEF Exhausted, AlreadyExhausted, Holds
  <2>9. /\ completing[k] = "none" /\ failing[t][k] = "none"
        /\ \A s \in Stages : failing[s][k] # "park"
        /\ \A s \in Stages : job[s][k].state # "none" => ReopenTo[t] \in Reached[s]
    <3>1. completing[k] = "none" /\ failing[t][k] = "none"
      BY <1>1, <1>4, <2>2 DEF InStep, GaveUpInOrder, FailuresAgree, CInv, TypeOK
    <3>2. \A s \in Stages : failing[s][k] # "park"
      BY <1>4, <2>3, <3>1 DEF InStep, FailuresAgree
    <3>3. \A s \in Stages : job[s][k].state # "none" => ClaimFrom[t] \in Reached[s]
      BY <1>1, <1>4, <2>2 DEF InStep, GaveUpInOrder
    <3> QED
      BY <1>1, <2>4, <3>1, <3>2, <3>3, StageOrder
  <2>10. \A s \in Stages : worker[s].key = k /\ worker[s].pc # "idle" =>
             worker[s].pc = "finish" /\ s # t
    <3>1. \A s \in Stages : worker[s].key = k =>
              worker[s].pc \notin {"park", "claim", "work", "publish", "rollback", "throw"}
      BY <1>4, <2>3, StageOrder DEF InStep, WorkersInStep, Forward, NothingTakenBack
    <3>2. worker[t].key = k => worker[t].pc = "idle"
      BY <1>1, <2>2 DEF CInv, WorkersAgree
    <3> QED
      BY <3>1, <3>2 DEF CInv, TypeOK, Worker
  <2>11. JobsReached' /\ ClaimsHold' /\ NothingTakenBack'
    <3>1. JobsReached'
      BY <1>1, <2>6, <2>9 DEF JobsReached
    <3>2. ClaimsHold'
      <4>1. \A s \in Stages : s # t => row'.status \notin {ClaimFrom[s], ClaimTo[s]}
        BY <1>1, <2>4, <2>6, StageOrder
      <4> QED
        BY <1>1, <2>6, <2>10, <4>1 DEF ClaimsHold
    <3> QED
      BY <1>1, <3>1, <3>2 DEF Forward, NothingTakenBack
  <2>12. FailuresAgree' /\ GaveUpInOrder'
    BY <1>1, <1>4, <2>6, <2>8, <2>9 DEF InStep, FailuresAgree, GaveUpInOrder
  <2>13. WorkersInStep'
    BY <1>1, <2>4, <2>6, <2>10, StageOrder DEF WorkersInStep
  <2>14. LettersStand'
    <3>1. \A s \in Stages : HasDeadLetter(s, k) => s = t
      BY <1>4, <2>1, <2>3 DEF InStep, LettersStand
    <3> QED
      BY <1>1, <2>6, <2>7, <3>1 DEF LettersStand, HasDeadLetter
  <2>15. RetriesStand'
    BY <1>1, <2>2, <2>6, <2>7, <2>10, StageOrder DEF RetriesStand
  <2>16. ASSUME NEW s \in Stages, InStage(s)'
         PROVE  s = t
    BY <1>1, <2>4, <2>6, <2>16, StageOrder DEF InStage
  <2>17. \A s : s = t => Retries("publish", s)'
    BY <2>7
  <2>18. \A s : s = t => Requested(s)'
    BY <1>1, <2>17 DEF Requested, Retries
  <2>19. ASSUME NEW s \in Stages PROVE ~GivenUp(s)' /\ (Orphaned(s)' => Requested(s)')
    <3>1. GivenUp(s)' => s = t /\ job'[t][k].state = "failed"
      BY <2>6, <2>16 DEF GivenUp
    <3>2. Orphaned(s)' => s = t
      BY <2>16 DEF Orphaned
    <3> QED
      BY <1>1, <2>2, <2>18, <3>1, <3>2
  <2>20. NoneLost
    BY <2>19 DEF NoneLost
  <2> QED
    BY <2>11, <2>12, <2>13, <2>14, <2>15, <2>20 DEF InStep, Forward
<1> QED
  BY <1>3, <1>4

(* publishes the job that nobody else publishes,                           *)
LEMMA PublishRetryInStep ==
    ASSUME CInv, PeopleOK, boot.pc = "done", Forward, InStep, Alone, JobsPast', ProcessPast',
           NEW u \in Retriers, PublishRetry(u)
    PROVE  Forward' /\ InStep' /\ NoneLost
<1> DEFINE t == retrier[u].stage
           l == retrier[u].key
           k == row.key
<1>1. /\ UNCHANGED <<row, deadLetters, process, reviewer>>
      /\ UNCHANGED <<worker, failing, completing, boot, upload>>
      /\ retrier[u].pc = "publish" /\ retrier'[u] = [retrier[u] EXCEPT !.pc = "drop"]
      /\ retrier[u] \in Retrier /\ t \in Stages /\ l \in Keys /\ k \in Keys
      /\ job \in JobTable
      /\ job' = IF WillRun(t, l) THEN job ELSE [job EXCEPT ![t][l] = FreshJob]
  BY DEF PublishRetry, RepublishRetried, Retrying, process, PeopleOK, Retrier, CInv, TypeOK,
         StoreTypeOK, Row, JobTable
<1>2. /\ retrier'[u].pc = "drop" /\ retrier'[u].stage = t /\ retrier'[u].key = l
      /\ FreshJob.state = "waiting"
  BY <1>1 DEF Retrier, FreshJob
<1>3. /\ \A pc, s : Retries(pc, s) <=> pc = "publish" /\ s = t /\ l = k
      /\ \A pc, s : Retries(pc, s)' <=> pc = "drop" /\ s = t /\ l = k
  <2>1. /\ row'.key = k /\ retrier[u].pc = "publish" /\ retrier'[u].pc = "drop"
        /\ retrier'[u].stage = t /\ retrier'[u].key = l
    BY <1>1, <1>2
  <2> QED
    BY <2>1, OneRetry
<1>4. CASE ~(row.live /\ l = k)
  <2>1. row.live => \A s \in Stages :
            /\ job'[s][k] = job[s][k]
            /\ HasDeadLetter(s, row.key)' => HasDeadLetter(s, row.key)
            /\ \A pc \in {"clean", "reopen", "publish", "drop"} :
                   Retries(pc, s)' <=> Retries(pc, s)
    BY <1>1, <1>2, <1>3, <1>4 DEF HasDeadLetter, JobTable
  <2> QED
    BY <1>1, <2>1, ElsewhereInStep
<1>5. CASE row.live /\ l = k
  <2>1. /\ row.status = ReopenTo[t] /\ job[t][k].state = "none"
        /\ \A p \in Publishers : ~(/\ NextStage[p] = t /\ worker[p].key = k
                                   /\ worker[p].pc = "publish")
    BY <1>1, <1>3, <1>5 DEF InStep, RetriesStand
  <2>2. row.status \in InFlight(t) /\ row.status # "FAILED" /\ row.status \notin Resting
    BY <1>1, <2>1, ReopenedStage
  <2>3. /\ job'[t][k].state = "waiting"
        /\ \A s \in Stages \ {t} : job'[s][k] = job[s][k]
        /\ \A s : ~Exhausted(s) /\ ~Exhausted(s)'
    BY <1>1, <1>2, <1>5, <2>1, <2>2 DEF JobTable, WillRun, Exhausted, AlreadyExhausted, Holds
  <2>4. completing[k] = "none" /\ failing[t][k] = "none"
    BY <1>1, <1>5, <2>1, <2>2 DEF InStep, GaveUpInOrder, FailuresAgree, CInv, TypeOK
  <2>5. Forward'
    <3>1. row.status \in Reached[t]
      BY <1>1, <2>2, StageOrder
    <3>2. JobsReached'
      BY <1>1, <2>3, <2>4, <3>1 DEF Forward, JobsReached
    <3> QED
      BY <1>1, <3>2 DEF Forward, NothingTakenBack, ClaimsHold
  <2>6. FailuresAgree' /\ GaveUpInOrder'
    BY <1>1, <1>5, <2>3, <2>4 DEF InStep, FailuresAgree, GaveUpInOrder
  <2>7. WorkersInStep'
    BY <1>1, <1>5, <2>1, <2>3, StageOrder DEF InStep, WorkersInStep
  <2>8. LettersStand'
    <3>1. \A s \in Stages : HasDeadLetter(s, k) => s = t
      BY <1>3, <1>5, <2>3 DEF InStep, LettersStand
    <3> QED
      BY <1>1, <1>3, <1>5, <3>1 DEF LettersStand, HasDeadLetter
  <2>9. RetriesStand'
    BY <1>1, <1>3 DEF RetriesStand
  <2>10. \A s \in Stages : ~Orphaned(s)' /\ ~GivenUp(s)'
    <3>1. \A s \in Stages : InStage(s)' => s = t
      BY <1>1, <2>2, StageOrder DEF InStage
    <3> QED
      BY <1>1, <2>3, <3>1 DEF Orphaned, GivenUp
  <2> QED
    BY <2>5, <2>6, <2>7, <2>8, <2>9, <2>10 DEF InStep, NoneLost
<1> QED
  BY <1>4, <1>5

(* and drops the letter.                                                   *)
LEMMA DropDeadLetterInStep ==
    ASSUME CInv, PeopleOK, boot.pc = "done", Forward, InStep, LettersOnce, Alone,
           JobsPast', ProcessPast', NEW u \in Retriers, DropDeadLetter(u)
    PROVE  /\ Forward' /\ InStep' /\ NoneLost
           /\ LettersOnce'
           /\ \A s \in Stages, k \in Keys : HasDeadLetter(s, k)' => HasDeadLetter(s, k)
<1> DEFINE t == retrier[u].stage
           l == retrier[u].key
           k == row.key
<1>1. /\ UNCHANGED <<row, job, process, reviewer>>
      /\ UNCHANGED <<worker, failing, completing, boot, upload>>
      /\ retrier[u].pc = "drop" /\ retrier'[u].pc = "idle"
      /\ retrier[u] \in Retrier /\ t \in Stages /\ l \in Keys /\ k \in Keys
      /\ deadLetters' = IF HasDeadLetter(t, l)
                        THEN [deadLetters EXCEPT ![l] = Without(deadLetters[l], t)]
                        ELSE deadLetters
  BY DEF DropDeadLetter, Retrying, NoRetry, process, PeopleOK, Retrier, CInv, TypeOK,
         StoreTypeOK, Row
<1>2. /\ LettersOnce'
      /\ \A s \in Stages, m \in Keys : HasDeadLetter(s, m)' =>
             HasDeadLetter(s, m) /\ ~(s = t /\ m = l)
  <2>1. CASE HasDeadLetter(t, l)
    BY <1>1, <2>1, DroppedLetter
  <2>2. CASE ~HasDeadLetter(t, l)
    <3>1. UNCHANGED deadLetters
      BY <1>1, <2>2
    <3> QED
      BY <2>2, <3>1 DEF LettersOnce, HasDeadLetter
  <2> QED
    BY <2>1, <2>2
<1>3. /\ \A pc, s : Retries(pc, s) <=> pc = "drop" /\ s = t /\ l = k
      /\ \A pc \in {"clean", "reopen", "publish", "drop"} : \A s : ~Retries(pc, s)'
  BY <1>1, OneRetry
<1>4. /\ \A s : Exhausted(s)' = Exhausted(s)
      /\ \A s \in Stages : (GivenUp(s)' => GivenUp(s)) /\ (Orphaned(s)' => Orphaned(s))
  BY <1>1 DEF Exhausted, AlreadyExhausted, Holds, GivenUp, WillFail, InStage, Orphaned,
              AwaitsUpload, WillPublish, WillScan, StillToCome, Booting
<1>5. Forward'
  BY <1>1 DEF Forward, NothingTakenBack, JobsReached, ClaimsHold, Booting
<1>6. FailuresAgree' /\ GaveUpInOrder'
  BY <1>1, <1>3, <1>4 DEF InStep, FailuresAgree, GaveUpInOrder
<1>7. WorkersInStep'
  BY <1>1 DEF InStep, WorkersInStep
<1>8. LettersStand'
  <2>1. \A s \in Stages : HasDeadLetter(s, k)' =>
            HasDeadLetter(s, k) /\ ~Retries("publish", s) /\ ~Retries("drop", s)
    BY <1>1, <1>2, <1>3 DEF HasDeadLetter
  <2> QED
    BY <1>1, <1>4, <2>1 DEF InStep, LettersStand, HasDeadLetter
<1>9. RetriesStand'
  BY <1>3 DEF RetriesStand
<1>10. \A s \in Stages : Requested(s) => Requested(s)'
  <2>1. \A v \in Retriers : retrier[v].pc # "publish"
    BY <1>1 DEF Alone
  <2> QED
    BY <1>1, <2>1 DEF Requested
<1> QED
  BY <1>2, <1>4, <1>5, <1>6, <1>7, <1>8, <1>9, <1>10 DEF InStep, NoneLost

(* None of it comes before the upload.                                     *)
LEMMA RetrierUploadsFirst ==
    ASSUME CInv, PeopleOK, InStep, UploadsFirst, NEW u \in Retriers, RetrierStep(u)
    PROVE  UploadsFirst'
<1> DEFINE t == retrier[u].stage
           l == retrier[u].key
<1>1. /\ t \in Stages /\ l \in Keys /\ row.key \in Keys /\ row \in Row /\ job \in JobTable
      /\ "text-extraction" \in Stages
  BY DEF PeopleOK, Retrier, CInv, TypeOK, StoreTypeOK, Row, JobTable, Stages
<1>2. CASE StartRetry(u) \/ DropDeadLetter(u)
  BY <1>2 DEF StartRetry, DropDeadLetter, UploadsFirst, vars, store, process
<1>3. CASE CleanFailedJob(u)
  BY <1>1, <1>3 DEF CleanFailedJob, UploadsFirst, process, JobTable, NoJob
<1>4. CASE Reopen(u)
  <2>1. UNCHANGED <<job, upload>>
    BY <1>4 DEF Reopen, process
  <2>2. \/ UNCHANGED row
        \/ row.status = "FAILED" /\ row'.key = row.key /\ row'.live = row.live
    BY <1>1, <1>4 DEF Reopen, Holds, Row
  <2> QED
    BY <2>1, <2>2 DEF UploadsFirst
<1>5. CASE PublishRetry(u) \/ PublishRetryFails(u)
  <2>1. /\ UNCHANGED <<row, upload>> /\ retrier[u].pc = "publish"
        /\ UNCHANGED job \/ job' = [job EXCEPT ![t][l] = FreshJob]
    BY <1>5 DEF PublishRetry, PublishRetryFails, RepublishRetried, Retrying, process
  <2>2. row.live /\ l = row.key => row.status = ReopenTo[t]
    BY <1>1, <2>1 DEF InStep, RetriesStand, Retries
  <2>3. ReopenTo[t] # "UPLOADED"
    BY <1>1 DEF ReopenTo, ClaimFrom, ClaimTo, Stages
  <2> QED
    BY <1>1, <2>1, <2>2, <2>3 DEF UploadsFirst, JobTable
<1> QED
  BY <1>2, <1>3, <1>4, <1>5 DEF RetrierStep

-------------------------------------------------------------------------------
(* So a retried invoice is driven, too.                                    *)
Retried == /\ Forward /\ InStep /\ UploadsFirst /\ RequestsPast
           /\ FailuresPast /\ LettersOnce
           /\ boot.pc = "done"
           /\ \A s \in Stages : ~GivenUp(s) /\ ~(Orphaned(s) /\ ~Requested(s))

(* It holds at first,                                                      *)
LEMMA InitRetried ==
    ASSUME ReviewInit, RInv PROVE Retried
<1>1. Init /\ CInv /\ \A u \in Retriers : retrier[u] = NoRetry
  BY DEF ReviewInit, RInv
<1>2. Forward /\ \A s \in Stages : ~GivenUp(s) /\ ~Orphaned(s)
  BY <1>1, InitForward
<1>3. /\ row.key = 1 /\ row.status = ClaimFrom[FirstStage] /\ FirstStage \in Stages /\ 1 \in Keys
      /\ \A s \in Stages, k \in Keys : failing[s][k] = "none"
      /\ \A s \in Stages : worker[s].pc = "idle"
      /\ \A k \in Keys : completing[k] = "none" /\ deadLetters[k] = <<>>
      /\ boot.pc = "done"
  BY <1>1, StoreAssumption, PipelineAssumption
     DEF Init, NewRow, Silent, Idle, AtRest, Booted, Keys
<1>4. FailuresPast /\ LettersOnce /\ \A s \in Stages : ~HasDeadLetter(s, row.key)
  BY <1>3 DEF FailuresPast, LettersOnce, HasDeadLetter
<1>5. RequestsPast
  BY <1>1, <1>3 DEF ReviewInit, NoRetry, RequestsPast
<1>6. \A pc \in {"clean", "reopen", "publish", "drop"} : \A s : ~Retries(pc, s)
  BY <1>1 DEF NoRetry, Retries
<1>7. \A s : ~Exhausted(s)
  BY <1>3, StageOrder DEF Exhausted, AlreadyExhausted, Holds
<1>8. InStep
  BY <1>3, <1>4, <1>6, <1>7
     DEF InStep, FailuresAgree, GaveUpInOrder, WorkersInStep, LettersStand, RetriesStand
<1>9. UploadsFirst
  <2>1. CASE FirstStage = "text-extraction"
    BY <1>1, <1>3, <2>1 DEF Init, UploadsFirst, NoJob, ClaimFrom, Stages
  <2>2. CASE FirstStage # "text-extraction"
    BY <1>1, <1>3, <2>2 DEF Init, UploadsFirst
  <2> QED
    BY <2>1, <2>2
<1> QED
  BY <1>2, <1>3, <1>4, <1>5, <1>8, <1>9 DEF Retried

(* every step of the pipeline keeps it,                                    *)
LEMMA PipelineRetried ==
    ASSUME RInv, RInv', MaxFaults = 0, MaxCrashes = 0, Repeats = FALSE, Reviewers = {},
           Retried, PipelineStep \/ UNCHANGED vars, UNCHANGED people
    PROVE  Retried'
<1>1. [Next]_vars /\ CInv /\ CInv' /\ PeopleOK /\ UNCHANGED retrier
  BY PipelineStepIsNext DEF RInv, people
<1>2. /\ Forward /\ InStep /\ RequestsPast /\ FailuresPast /\ LettersOnce /\ boot.pc = "done"
      /\ UploadsFirst
      /\ NothingTakenBack /\ JobsPast /\ ProcessPast /\ JobsReached
  BY DEF Retried, Forward
<1>3. boot'.pc = "done"
  BY <1>1, <1>2, NextNoStartup DEF CInv
<1>4. JobsPast' /\ RequestsPast'
  BY <1>1, <1>2, ReviewNextPast DEF WorkPast, ReviewNext, allVars, people, PipelineStep
<1>5. LettersOnce' /\ FailuresPast'
  BY <1>1, <1>2, NextLetters, NextFailuresPast
<1>6. CorrectionsReach
  BY DEF CorrectionsReach
<1>7. Forward' /\ \A s \in Stages : Orphaned(s)' /\ ~Requested(s)' => Orphaned(s) /\ ~Requested(s)
  BY <1>2, <1>6, PipelineForward
<1>8. \A s \in Stages : GivenUp(s)' => GivenUp(s)
  BY <1>1, <1>2, NextGivenUp
<1>9. InStep'
  <2>1. CASE Renew
    BY <1>1, <1>2, <2>1, UploadInStep
  <2>2. CASE ~Renew
    BY <1>1, <1>2, <2>2, NextFailuresAgree, NextGaveUpInOrder, NextWorkersInStep,
       NextLettersStand, NextRetriesStand DEF InStep
  <2> QED
    BY <2>1, <2>2
<1>10. UploadsFirst'
  BY <1>1, <1>2, NextUploadsFirst DEF InStep
<1> QED
  BY <1>2, <1>3, <1>4, <1>5, <1>7, <1>8, <1>9, <1>10 DEF Retried

(* and so does every step of the one retry.                                *)
LEMMA RetrierRetried ==
    ASSUME RInv, RInv', MaxFaults = 0, Alone, Retried, RequestsPast', JobsPast', ProcessPast',
           NEW u \in Retriers, RetrierStep(u)
    PROVE  Retried'
<1>1. /\ CInv /\ PeopleOK /\ Forward /\ InStep /\ FailuresPast /\ LettersOnce /\ boot.pc = "done"
      /\ UploadsFirst
      /\ row.key \in Nat /\ row'.key \in Nat /\ row.key <= row'.key
  <2>1. CInv /\ CInv' /\ RowAges
    BY ReviewRowAges DEF RInv, ReviewNext
  <2>2. row \in Row /\ row' \in Row
    BY <2>1 DEF CInv, TypeOK, StoreTypeOK
  <2>3. row.key \in Nat /\ row'.key \in Nat /\ row.key <= row'.key
    BY <2>1, <2>2, StoreAssumption DEF RowAges, Row, Keys
  <2> QED
    BY <2>3 DEF Retried, RInv
<1>2. ~PublishRetryFails(u)
  BY <1>1 DEF PublishRetryFails, Fault, CInv, TypeOK
<1>3. UNCHANGED process
  BY DEF RetrierStep, StartRetry, CleanFailedJob, Reopen, PublishRetry, PublishRetryFails,
         DropDeadLetter, vars
<1>4. /\ Forward' /\ InStep' /\ NoneLost /\ LettersOnce'
      /\ \A s \in Stages, k \in Keys : HasDeadLetter(s, k)' => HasDeadLetter(s, k)
  <2>1. CASE DropDeadLetter(u)
    BY <1>1, <2>1, DropDeadLetterInStep
  <2>2. CASE StartRetry(u) \/ CleanFailedJob(u) \/ Reopen(u) \/ PublishRetry(u)
    <3>1. UNCHANGED deadLetters
      BY <2>2 DEF StartRetry, CleanFailedJob, Reopen, PublishRetry, vars, store
    <3>2. Forward' /\ InStep' /\ NoneLost
      BY <1>1, <2>2, StartRetryInStep, CleanFailedJobInStep, ReopenInStep, PublishRetryInStep
    <3> QED
      BY <1>1, <3>1, <3>2 DEF LettersOnce, HasDeadLetter
  <2> QED
    BY <1>2, <2>1, <2>2 DEF RetrierStep
<1>5. FailuresPast'
  BY <1>1, <1>3, <1>4, StoreAssumption DEF FailuresPast, process, Keys
<1>6. UploadsFirst'
  BY <1>1, RetrierUploadsFirst
<1> QED
  BY <1>1, <1>3, <1>4, <1>5, <1>6 DEF Retried, NoneLost, process

(* Nobody else takes one that matters.                                     *)
LEMMA NextRetried ==
    ASSUME RInv, RInv', MaxFaults = 0, MaxCrashes = 0, Repeats = FALSE, Reviewers = {},
           Alone, Retried, [ReviewNext]_allVars
    PROVE  Retried'
<1>1. JobsPast' /\ ProcessPast' /\ RequestsPast'
  BY ReviewNextPast DEF Retried, Forward, WorkPast
<1>2. CASE (PipelineStep \/ UNCHANGED vars) /\ UNCHANGED people
  BY <1>2, PipelineRetried
<1>3. CASE \E s \in Stages : Park(s) /\ UNCHANGED people
  <2>1. PICK r \in Stages : Park(r) /\ UNCHANGED people
    BY <1>3
  <2>2. InStep' /\ LettersOnce' /\ FailuresPast'
    BY <2>1, ParkInStep DEF RInv, Retried
  <2>3. /\ Forward' /\ UNCHANGED row /\ UNCHANGED boot
        /\ \A s \in Stages : (GivenUp(s)' => GivenUp(s)) /\ (Orphaned(s)' => Orphaned(s))
    BY <2>1, ParkForward DEF RInv, Retried, Park
  <2>4. \A s : Requested(s) => Requested(s)'
    BY <2>1, <2>3 DEF Requested, people
  <2>5. UploadsFirst'
    BY <2>1 DEF Park, UploadsFirst, Retried
  <2> QED
    BY <1>1, <2>2, <2>3, <2>4, <2>5 DEF Retried
<1>4. CASE \E u \in Retriers : RetrierStep(u)
  BY <1>1, <1>4, RetrierRetried
<1>5. ~Crash
  BY DEF Crash, RInv, CInv, TypeOK
<1> QED
  BY <1>2, <1>3, <1>4, <1>5 DEF ReviewNext, PipelineStep, allVars

(* All of it, all the time.                                                *)
LEMMA AlwaysRetried ==
    ASSUME MaxFaults = 0, MaxCrashes = 0, Repeats = FALSE, Reviewers = {},
           \A u, v \in Retriers : u = v
    PROVE  ReviewSpec => [](RInv /\ Retried)
<1>1. Alone
  BY DEF Alone
<1>2. ReviewInit /\ RInv => Retried
  BY InitRetried
<1>3. RInv /\ RInv' /\ Retried /\ [ReviewNext]_allVars => Retried'
  BY <1>1, NextRetried
<1> QED
  BY <1>2, <1>3, ReviewInitRInv, ReviewNextRInv, PTL DEF ReviewSpec

(* Where one person retries, one call at a time, and a PDF is not uploaded *)
(* again while its row is UPLOADED, an invoice in processing is always     *)
(* driven: by its job, by somebody about to publish it, or by the retry    *)
(* itself.  The failed job that a startup or an enqueue would    *)
(* stumble over is gone before the row is reopened, and nobody publishes   *)
(* beside the retry.                                                       *)
THEOREM RetriedInvoicesAreDriven ==
    ASSUME MaxFaults = 0, MaxCrashes = 0, Repeats = FALSE, Reviewers = {},
           \A u, v \in Retriers : u = v
    PROVE  ReviewSpec => []NoStrandedReview
<1>1. RInv /\ Retried => NoStrandedReview
  <2> SUFFICES ASSUME RInv, Retried, NEW s \in Stages, row.live, row.status \in InFlight(s),
                      ~AwaitsUpload
               PROVE  Driven(s, row.key) \/ DrivenByRequest(s, row.key)
    BY DEF NoStrandedReview
  <2>1. CASE Requested(s)
    BY <2>1 DEF Requested, DrivenByRequest
  <2>2. CASE ~Requested(s)
    BY <2>2, StageDriven DEF Retried, InStage, RInv, CInv
  <2> QED
    BY <2>1, <2>2
<1> QED
  BY <1>1, AlwaysRetried, PTL

(* There, a failed invoice can always be retried, or is being retried: the *)
(* job that a retry takes away, the same retry puts back.                  *)
THEOREM RetriesAlwaysKeepRecoverable ==
    ASSUME MaxFaults = 0, MaxCrashes = 0, Repeats = FALSE, Reviewers = {},
           \A u, v \in Retriers : u = v
    PROVE  ReviewSpec => []RetriesKeepRecoverable
<1>1. RInv /\ Retried => RetriesKeepRecoverable
  <2> SUFFICES ASSUME RInv, Retried, NEW s \in Stages, AlreadyExhausted(s, row.key)
               PROVE  job[s][row.key].state # "none" \/ Retries("reopen", s)
    BY DEF RetriesKeepRecoverable, Retries
  <2> QED
    BY DEF Retried, InStep, FailuresAgree, Exhausted, AlreadyExhausted, Holds
<1> QED
  BY <1>1, AlwaysRetried, PTL
=================================================================================
