# A verification project for pdf-to-xrechnung

TLA+ modules that model the processing of an invoice from its upload to its XRechnung, TLC
runs that check them on small instances, and TLAPS proofs of the properties that matter most.
Paths such as `queue/pipeline-stage-queue.ts` are below `src/apps/api/src/`; `PROJECT.json`
maps every definition to the lines it models.

## The system

A user uploads a PDF. The API (one Nest process, `main.ts`) stores it, and four BullMQ stages
take the invoice along: text extraction, data extraction (LLM), validation, generation
(XRechnung and KoSIT). An invoice with blocking findings goes to a reviewer, whose
correction is generated again. A stage whose retries are exhausted fails the invoice and parks
its job in a dead-letter queue, from which a user may retry it. Rows expire after a retention
time; the same PDF uploaded later reuses the row under a new storage key, which is the name of
the row's *lifecycle*.

| Component | State | Operations | Talks to | What is hard | What makes it correct |
|---|---|---|---|---|---|
| Invoice state machine (`queue/invoice-state-machine.ts`) | the row, its findings and documents (PostgreSQL) | `transition`, `failIrrecoverably`, `completeValidation`, `reviewCorrection`, `rejectGeneration`, `completeGeneration`, `reopenAfterDeadLetter` | everybody writes through it | every write is conditional on status, storage key and expiry, and races all the others | document, findings and status fit together; a write for an old lifecycle misses |
| Stage queues (`queue/pipeline-stage-queue.ts`) | one job per (stage, invoice, storage key), one dead letter likewise (Redis) | `enqueue`, `moveToDlq`, `finalizeFailure`, `reconcileFailedJobs`, `requeueStranded`, `publishNextStage`, `retryFromDlq` | workers, review service, reconcilers | row and queue are two stores without a common transaction; an enqueue of a taken id is a no-op | no row in processing without a job; exhausted work is recoverable |
| Stage workers (`queue/pipeline-stage.processor.ts`, the four processors) | the job each works on, the row it read first | accept, claim, work, commit, publish, roll back; `failed` and `completed` listeners | state machine, queues | a snapshot is used several awaits after it was read; retries, stalls, stale jobs | the claim decides; the newest data is generated |
| Startup reconciliation (`queue/stranded-invoices.ts`, four services) | which stage and row it is at | finalize failed jobs, then requeue rows in flight, stage by stage | queues, state machine | runs beside the workers; must repair every crash | every invoice in flight moves again |
| Review and retry (`review/review.service.ts`) | tokens held by browsers | `detail`, `review`, `retryDeadLetter`, `deleteInvoice` | state machine, queues | requests interleave with each other and with the pipeline, and die with the process | corrections apply to what was seen; a retry keeps the invoice recoverable |
| Upload and retention (`invoices/`, `cleanup/`, `storage/`) | files, rows, pending deletions | `ingest`, `resurrect`, sweep, delete | storage, row, queue | three stores, no transaction | no live row without its file, no file for ever |
| Extraction attempts (`data-extraction/extraction-attempt.runner.ts`) | attempts per lifecycle | ask, record, judge, repair, reuse | LLM, row | crash between answer and commit; another provider after a restart | an accepted answer is not paid for again, and is the one later stages read |
| Text and OCR workers (`extraction/*-text-extractor.ts`) | a thread or a command per page | start, answer, time out, kill | processor | answer, error, exit and deadline race | the PDF decides the verdict; nothing is left running |
| Validation, money, mapping (`validation/`, `money/`, `generation/xrechnung-mapper.ts`) | none | pure functions | processor, review | two sets of rules about one invoice; rounding and boundaries | what validation passes can be mapped; totals are near exact arithmetic |
| LLM providers, KoSIT client | none | HTTP calls | processors | failures | classified as retryable or not |
| Web client (`src/apps/web/lib`) | draft, detail, status, request versions | load, submit, poll, retry | API | answers out of order | never goes back, keeps what was typed, sends what was seen, catches up |
| Sessions, HTTP, config, evals, deployment | - | - | - | - | not modelled |

Hazards, each at its line with the properties aimed at it, are in `PROJECT.json`.

## Modules

```
Lifecycle            statuses, stages, edges (no state)
  +- LifecyclePromise     abstract specification: what the API promises of one invoice
  +- InvoiceStore         row, jobs, dead letters; the state machine's and queues' operations
  |    +- StagePipeline        workers, listeners, crash, startup, expiry, re-upload
  |         +- ReviewPipeline       reviewers and dead-letter retries in front of it
  |         |    +- MCReviewPipeline     instances for TLC
  |         |    +- ReviewPipelineProofs (uses PipelineSafetyProofs)  types, promise, corrections, proved
  |         |         +- LatestDocumentProofs   the latest correction is generated, proved
  |         +- MCStagePipeline      instances for TLC
  |         +- StagePipelineProofs  type correctness and bookkeeping, proved
  |              +- PipelineSafetyProofs  documents, promise, staleness, recoverability, proved
  +- Retention            upload, resurrection, deletion, sweep: rows, files, markers
       +- MCRetention          instance for TLC
       +- RetentionProofs      its inductive invariant, proved

ExtractionJob        the job of an extraction stage: attempts, crashes, lost rows
  +- TextExtraction       native text layer and OCR of a PDF
  +- DataExtraction       the language model's answers and their records
       Extraction         both stages of one invoice;  MCExtraction: instance for TLC
         +- ExtractionProofs    verdicts, threads, attempts and records, proved

Money                decimals, rounding
  +- InvoiceData          invoice data, its schema, paths and updates
       +- ValidationRules      every rule of the validator
            +- XRechnungMapping     every finding of the mapper, the amounts of the document
            +- ReviewDraft          issues, diff and untouched findings of the review page
                 InvoiceRules       validate, map, KoSIT, correct, validate again (both above)
                   +- MCInvoiceRules      instance for TLC
                   +- InvoiceRulesProofs  page, validation and mapper agree, proved

ReviewClient         the review page in the browser;  MCReviewClient: instance for TLC
  +- ReviewClientProofs   answers in any order, tokens and typing, proved
```

The families share no state. What one takes from another as given: Retention moves its row along
the edges that StagePipeline is proved to keep to; Extraction and InvoiceRules are the insides of the stages
whose outcome StagePipeline chooses; ReviewClient's server does what ReviewPipeline and
StagePipeline let a row do.

**InvoiceStore.** `row` is the invoice with its error findings and documents; `Holds` is the
predicate every conditional write of the state machine carries. `reviewedData` is represented
by `version` (reviewVersion), since both change together; a document remembers the version it
was generated from. `live` is "exists and not expired": expiry, the sweep and a deletion
are one event here. `job[s][k]` is the BullMQ job of stage `s` for storage key `k`: none,
waiting (or delayed), active, or failed and retained. `deadLetters[k]` is the sequence of stages with a
dead letter, oldest first, which is all that `deadLetterFor`'s sort by `failedAt` uses.
One invoice suffices: rows share nothing, and what interferes with a row are the jobs of its
own earlier storage keys.

**StagePipeline.** A worker's `pc` is the statement it will execute next: `Take` (BullMQ hands
it a job, and it reads the row), `Park`, `Claim`, `Extract`/`Validate`/`Generate` (commit the
outcome), `Publish` and `Rollback` (`publishNextStage`), `Finish` (the job is removed).
`Throw` and `TakeThrows` are any transient error; `TryAgain` is BullMQ counting it. The
`failed` listener is `FinalizeFail`, `FinalizePark`, `FinalizeFails`; the `completed` listener
of generation is `CheckRegeneration`, `Republish`, `RepublishFails`. `Crash` loses everything
in memory; `Restart` and the `Boot...` actions are `reconcileStage` for each stage in
`BootOrder`. `RecoverStalled` is BullMQ's stalled check. `Expire` ends a lifecycle and `Renew` (the PDF is
uploaded again) starts the next one. `upload[k]` is the request that uploads the file of key `k`, with the file: `SaveFile`
and `EnqueueUpload` are its awaits after the row is there, either may fail and leave the row UPLOADED, and
`RepeatUpload` is another upload of a PDF that still is. `AwaitsUpload` is the row that the text reconciler
skips. Between any two of these steps anything else may happen.
`Park` (the worker finds its stage already given up) is defined here but belongs to
`ReviewNext`: an exhausted job keeps its id, so without a retry no second job of the stage
and key exists to find it.

**ReviewPipeline.** Reviewers open, submit, publish and roll back; retriers run
`retryDeadLetter` and `retryFromDlq` statement by statement. A token stands for
the pair (storage key, version) it is a MAC of. Tokens survive a crash, requests do not.

**Retention.** One owner's uploads of one PDF meet on one row. `row` carries the storage key, the
phase (the statuses that storage and retention tell apart; its edges are computed from
`LegalTransitions`) and whether a text job is queued; `files` is the storage directory, `markers` the table
PendingStorageDeletion, `expired` the keys whose `expiresAt` has passed. Each request is a
sequence of awaits: `Create`, `Find`, `EraseExpired`, `Renew`, `SaveFile`, `Enqueue` for
`ingest` and `resurrect`; `RequestDeletion` ... `ClearMarker` for `deleteInvoice`; `Tick` ...
`DeleteSwept` for the sweep with its snapshots. A call may fail (`Fault`, the error path is taken) and the
process may die between any two. `late` only remembers which files were saved for a key that
no longer lived. A round of `findOrCreateInvoice` that is repeated is a request of its own.

**ExtractionJob, TextExtraction, DataExtraction, Extraction.** The invoice has been claimed; the job may
throw and be tried again until its attempts are used up, the process may die (the same job
starts over), and the row may disappear. In TextExtraction the worker thread posts `events` that
`Listener` hears one at a time, in order; the timer, the thread's own end and a parser over its memory
limit compete with them; `Terminate` and `NativeAnswers` are the `terminate().then(settle)`. Then
OCR: `Render` and `Recognise` a page, `CommandFails` for every other exit of a command or of the deadline,
`Unreadable` for a table that the TSV parser refuses, `JudgePages`. `pdf` says what parser and OCR would
make of the file; `Verdict` is what it deserves, defined without regard to the machinery.
In DataExtraction the provider's answer is recorded (`RecordReply`, under the row lock), judged,
repaired once or accepted; `Reusable` is the lookup by identity (provider, model, prompt
version) that precedes the call, `Read` the lookup without it that validation and generation make. A
restart may change the identity, and may start a release whose schema refuses the records up to `outdated`; a
record found then is validated again, and the provider asked when it does not pass.

**Money, InvoiceData, ValidationRules, XRechnungMapping, ReviewDraft, InvoiceRules.** Invoice data is
a record; a numeral is a coefficient and a scale, so that 19 and 19.0 differ as texts and agree as
numbers; a text is one of the classes the rules tell apart (`"checksum"` has the right shape and
the wrong checksum); `Null` is missing and `Malformed` what the schema refuses. Every rule of the
validator is a conjunct `Unless(condition, finding)` with its rule, field and severity; the mapper
likewise, except that it goes on with what it could resolve. InvoiceRules puts them in a loop: `Validate`,
`RejectUnreadable`, `RejectMapping`, `RejectRendering`, `Accept`, `RejectByKosit`, and a reviewer who
opens, edits fields, adds and removes rows and submits.

**ReviewClient.** `moments` is the history of the server's row; an answer shows any moment
between its request and its delivery. `view` is the reducer's state with the refs of the hook; `thread`
has each asynchronous function under way with the values its closure captured; `owner` stands for
`statusVersion` and `detailVersion`: whose answer is still wanted. The timer (`Tick`), `Reload`,
`Edit`, `Submit`, `Retry`, `Leave` and `Return` start things; `StatusAnswered`, `DetailAnswered`,
`PairAnswered`, `SubmitAnswered`, `RetryAnswered` and the failures end them. A reload overtakes one still under
way. A retry reopens the row before it is answered (`ServerRetries`), as another tab's may. `unheard` remembers that
the row has moved where this page is not told, `crossed` that a button's request outlived its visit,
`replaced` that a reload after a load error replaced the draft under a submission.

**LifecyclePromise.** A lifecycle per storage key; within it the status follows the code's edges,
corrections are numbered, and a document is there, valid or rejected, exactly when the status
says so. `ImplementsPromise` in StagePipeline (INSTANCE ... WITH) is the refinement.

Operators introduced as "a bug" directly before a definition are variants of it with a plausible
mistake. They are used by nothing; substituting one for the definition breaks the property named in
`PROJECT.json` "mutants", which shows that the property depends on that code.

### Abstractions

- Two statements are one step where nothing can tell them apart: taking a job and reading the
  row (nobody else changes an active job), an exception and its rethrow, the review's token
  check and its conditional update (the update repeats the check on key and version, and
  neither ever decreases).
- The two queries of `failIrrecoverably` and of `reopenAfterDeadLetter` are one step, and so are
  the lookups at the beginning of a retry, and the removal and the addition of its republication.
  This hides interleavings in which the row changes between the two queries.
- A failing PostgreSQL call has no effect; a commit whose reply is lost, and a database error
  in a rollback, are not modelled. Redis calls may fail with or without effect (`Faults`).
- Errors that BullMQ retries are unbounded choices, bounded by the job's attempts; errors outside
  a job (enqueue, listener) are bounded by `MaxFaults`.
- The age limit of retained failed jobs, pagination and the graceful shutdown (`worker.close`)
  are left out; every death is abrupt.
- In StagePipeline one request at a time uploads the file of a key, and the file of an expired key goes only when
  the row is renewed; how several uploads, deletions and the sweep treat files and rows is the subject of Retention.
- In Retention a job of an older lifecycle is not kept (StagePipeline shows it harmless), and expiry does
  not fall between the two calls of a resurrection that found an earlier key: hours pass between two
  expiries of one row. The resting statuses are one phase, so a deletion may always conflict.
- In InvoiceRules each decision is one step. Checksum algorithms, lengths of texts, the unit and
  code tables and the XML are abstracted to attributes of a text. The days of an invoice are small numbers
  around the day of validation.
- In ReviewClient the fields of an invoice are one value, 0 before there is any, and findings are
  not looked at (ReviewDraft has them). React renders between two functions.
- An answer of the language model is its classification: a usable invoice, a blank one, one
  off the schema, no JSON, each possibly cut short.
- A job stalls only when its process died: there is one process, and each worker has
  concurrency 1. Lock loss of a live worker is not modelled.
- Logging, messages and payloads are left out.

## Runs

`Stage_*` check StagePipeline, `Review_*` ReviewPipeline, the others the module they are named for.
All stop in states where an invoice has settled and nobody acts, so `CHECK_DEADLOCK` is off
everywhere; that work itself does not stop is what `NoStranded...` and the `Eventually...` properties say.

| Run | Question | Bounds | Distinct states |
|---|---|---|---|
| Stage_crash | bookkeeping, recoverability and progress under crashes | from validation, 2 crashes, 1 stall | 86,777 |
| Stage_reuse | old work and a repeated upload across an expiry | 2 keys, 1 fault, no crash, from generation | 762,834 |
| Stage_restart | a startup repairs whatever failed, in reverse order of reconciliation | from the upload, 1 attempt, no stall, 1 fault, 1 crash | 347,731 |
| Review_corrections | concurrent corrections | 2 reviewers, 2 versions, 1 crash, from generation | 41,126 |
| Review_reuse | corrections and retries across a re-upload | 1 reviewer, 1 retrier, 2 keys, 1 attempt, 1 rejected enqueue, from generation | 1,340,589 |
| Review_retries | retries keep an invoice moving and recoverable | 1 retrier, 2 retries, from the upload | 21,400 |
| Retention_uploads | files, rows and markers under concurrent requests | 2 uploads, 1 deletion, 2 keys, 1 crash or failing call | 877,044 |
| Extraction_decides | both extraction stages against their environment | 2 attempts, 2 crashes, PDFs of 2 pages, 2 identities, 2 changes of them, releases with another schema | 191,111 |
| Client_review | the page against answers in any order | 3 moments, 2 values, 1 failure or departure, 2 visits, 1 retry poll | 742,278 |
| Rules_review | page, validation, mapper and KoSIT about the same data | 156 initial states, 1 edit of any field or row, 2 rows per list | 131,833 |
| Review_stale_document | violation: finding 1 | 1 reviewer, 1 uncertain enqueue | - |
| Retention_late_save | violation: finding 2 | as Retention_uploads | - |

Two reviewers are symmetric: nothing compares them.

Why the bounds suffice. Storage keys interact only as "the current one" and "an earlier one",
so two are enough. Two attempts show both an attempt that is retried and the last one (the code
has three); one attempt is used where retries are not the point. One stall reaches both branches
of the stalled check. One crash reaches every
statement, a second one interrupts a recovery. Stages are alike except at their ends, so the
expensive runs start from validation (which has a consumer and a producer beside it) or
generation (with its listener); Stage_restart and Review_retries start from the upload. Two versions make a stale token, a
stale document and a current one. In Retention two uploads race each other and the same upload after
a deletion; one mishap leaves each operation half done. Stage_reuse starts at generation, because
its first lifecycle is only there to leave work behind (a job, its listeners and its dead letter, alike for every stage), and has no crash: that a startup, too, leaves the row to a
later lifecycle is proved (`StaleWorkIsAlwaysHarmless`), and not checked. Two pages show an obstacle before and
after another one, and content beside a blank page. Two identities with two changes go away and
back. Three moments are a before, a between and an after of any request; one retry poll both starts and
exhausts the polling of a retry. The invoices of MCInvoiceRules sit on the boundaries: amounts that
use up the tolerances, rates written in two forms, five VAT categories, lists without rows and a row
without values; two of them come also with any one field absent, or one that an extraction misreads or a correction about VAT sets holding any
other class of value. The edit of a reviewer, of any field to any class, is then a second deviation.

### Properties

- `ImplementsPromise`: every behaviour, seen through the row, is one of LifecyclePromise.
- `DocumentsMatchStatus`: document, findings and status agree.
- `QueuesAgree`: what workers, listeners and the startup hold matches the queues.
- `NoStrandedInvoice`, `NoStrandedReview`: an invoice in processing has a job, or somebody
  who is about to publish one. `OnlyFailedJobsStrand` is the weaker form that tolerates a
  retained failed job, and `OnlyFaultsStrand` the one for runs in which an enqueue or a listener may fail.
  All four except the UPLOADED row whose file was never stored, which waits for its user
  (`docs/architecture.md:314`).
- `ExhaustedIsRecoverable`, `RetriesKeepRecoverable`: exhausted work can be retried.
- `StaleWorkIsHarmless`: work for an earlier storage key leaves the row alone.
- `CorrectsWhatWasSeen`: a correction replaces exactly the state its author was shown.
- `SourceKept`, `FilesAreOwned`, `MarkedIsGone`, `SparesTheLiving`, `EventuallyErased`: no living invoice loses its
  file or its row, or has its file marked for erasure, no file is forgotten, and what is due goes in the end.
  `DeletedFilesAreErased` is what the documents say of a deletion, and finding 2.
- `NeverPaysTwice`, `ReadsWhatWasAccepted`: what becomes of the provider's answers, as long as the running schema
  accepts them. The second is
  stated for at most one change of identity, because after A, B, A the answer of B has the higher number:
  `latest-extraction-attempt.ts` does not look at the identity, although `docs/architecture.md:391-394`
  says that switching the provider cannot reuse a stale parse.
- `VerdictIsDeserved`, `RetriesNeedTrouble`, `ParserGone`, `EventuallyDecides`: the outcome is a
  function of the PDF and of exhausted retries; nothing is retried without an outside reason or left running.
- `NeverGoesBack`, `EditsSurvive`, `ConfirmedAgainstServer`, `NoSilentDeadEnd`, `EventuallyCurrent`: the
  page shows moments in order, keeps what was typed, confirms a correction against the data it will replace, and
  ends with the row's state or an honest notice. (Edits that a refresh preserved were typed over older data; the
  confirmation shows them as changes of the new.)
- `MapsWhatValidationPasses`, `PageAgreesWithServer`, `UntouchedFindingsRemain`,
  `StopsAreExplained`, `LinesShareTheirBreakdown`, `TotalsReflectTheRows`: page, validator, mapper and
  document agree about one invoice. One warning of the page has no counterpart at the server, and
  `PageAgreesWithServer` excepts it: that the point of a unit price may have been meant for thousands.
- `EventuallySettles`, `RestartRecovers`: liveness of the pipeline.

With one retrier and no crash `RetriesKeepRecoverable` holds, and is proved. It does not survive a crash between
republication and cleanup, nor two concurrent retries: the leftover dead letter of an earlier failure may be the one
that is retried (so an invoice may have more than one, although `docs/architecture.md:134` speaks
of "one DLQ entry"), and the final removal may take a newer letter. `NoStrandedReview` is likewise checked with one
retrier and without faults in the republication, and fails with two. Nor do the runs with retries have a repeated
upload of a PDF that is still UPLOADED (`Repeats = FALSE`). Both are told under other differences. `LatestCorrectionGenerated` holds without
faults and fails with an uncertain or rejected enqueue; `RestartRecovers` holds for rejected enqueues and
failing listeners and not for uncertain enqueues, which leave a stale job that may fail
and keep its id. Which run assumes what is in its `.cfg`.

### Fairness

Weak fairness of each worker, listener, stalled check, the startup, and the requests already
accepted (a correction, a retry, an upload after its row). BullMQ polls its queues and runs delayed jobs; promises that were started are
continued by the event loop; a dead container is restarted (`restart: unless-stopped`,
`src/docker-compose.yml`), and the HTTP server listens only after the reconcilers have returned
(`main.ts`: `app.listen` runs the startup hooks). No fairness is assumed of users, of expiry,
of crashes or of faults, nor that any attempt succeeds: settling may mean FAILED.

Retention: the cleanup timer keeps firing and a dead process is started again; nobody has to upload, delete
or process anything. A failing call is bounded by `MaxMishaps`, so cleanup succeeds in the end.
Extraction: a waiting job is taken, timers fire, a terminated thread ends, a request ends by its own
timeout; no thread, command or provider ever has to answer. ReviewClient: every request ends in an answer
or an error (fetch does), and the timer fires while the page is open; the server need not move.

### Findings

Two runs expect a violation and show where the code and the documentation disagree; the
details and quotations are in `PROJECT.json`.

1. `Review_stale_document`: the generator reads the reviewed data before its claim, not
   after it, so after an uncertain enqueue a READY invoice can have the document of the
   previous correction.
2. `Retention_late_save`: an upload that is deduplicated against an UPLOADED row saves the file once
   more; when it is slow the invoice may have been processed, and deleted by its user, by then: the file is
   written again under the deleted key, the deletion clears its marker, and nothing names the file any more.

### Other differences

Seen while modelling, and not turned into runs.

*Pipeline.*
- `docs/architecture.md:280-283` says that a concurrent retry is resolved by the state of the primary job: "a non-failed
  job at that ID means publication already happened". The retry looks for the job after it has reopened the row
  (`queue/pipeline-stage-queue.ts:187-204`), and may find one that is done with it: a first retry has republished and not
  yet removed the dead letter; its job finds the content unusable, fails the row and is about to be removed; a second retry
  reopens the row and takes that job for its publication. The row stays in processing until the next process
  start. (`NoStrandedReview` with two retriers.)
- The same happens to a retry that meets the job of a delayed upload: an upload that found the row still UPLOADED and
  enqueues after the last attempt of the text job makes a job that does nothing but keep the id. The runs and theorems
  about retries therefore have `Repeats = FALSE`.
- `docs/api-contract.md:234` says that a review "enqueues regeneration". A stale generation job
  that fails keeps the job id, and the next correction's enqueue does nothing (`queue/pipeline-stage-queue.ts:62`):
  the row stays in GENERATING until a restart fails it.
- `docs/architecture.md:305` has the data job's own retry republish a rejected handoff. During the startup
  reconciliation the retry's enqueue may be taken for a duplicate of a stale validation job that is
  finishing, and the row stays in DATA_READY until the next restart. Both need a
  job that stays active longer than other work takes, for instance while its Redis connection reconnects.
- `docs/architecture.md:299` says "Diagnostic DLQ entry, then lifecycle-scoped `FAILED`"; `finalizeFailure`
  fails the row first and writes the entry after it.

*Extraction.*
- The first branch of `failAsEmpty` (`data-extraction.processor.ts:61-64`) cannot be reached.
- A recorded answer that the schema of a later release refuses is paid for again
  (`data-extraction.processor.ts:79-90`, asserted by `data-extraction.processor.spec.ts:445-472`).

*Review page.*
- After a conflict `replaceDetail` may fail while a status poll in flight succeeds and clears the error:
  the form is disabled, and nothing polls or explains it but the notice of the failed submission.
- A page that shows FAILED does not poll: a retry by another tab, or one whose answer was lost, is not noticed
  (`unheard`).
- When a refresh of the detail fails, the page offers to reload it, also while a submission is under way
  (`review-workspace.tsx:220`, `:273`). The answer of the reload replaces the draft (`use-invoice-review.ts:122`); the submission then
  takes the new token for the old draft it sent (`:190`), and when `replaceDetail` fails as well the user
  may submit the replaced data under the new token (`replaced`; found while proving `ConfirmedAgainstServer`).
- A submission or retry may outlive its visit: `submittingInvoiceId` is reset only when `isCurrent`
  (`review-workspace.tsx:199`), and `isCurrent` knows the invoice, not the visit (`crossed`).

*Rules.*
- The page warns of any numeral such as 1.234 in an amount field (`draft.ts:149-158`). In a sum the third place is also a
  finding of the server; in a unit price, which may have any precision, it is not (`draft.spec.ts:136-150`).
- `docs/architecture.md:91-97` counts the VAT-ID checksum among seven checks of the page that do not block;
  `draft.ts:197` blocks on it.
- "These items concern no changed field and will therefore remain" (`en.ts`) does not hold for rules
  that read other fields than the one they name (`ReadsOtherFields`); "nothing was changed" is also shown
  when an empty row was added. Nor for a finding about a whole list: an added or removed row without
  values is no change (`draft.ts:406-423`), but the first row settles "at least one line item" or "a VAT breakdown",
  and the removal of an empty one "every line has a description" (found while proving
  `UntouchedFindingsRemain`, which excepts them).
- Two breakdowns of one rate, one without a category and one with S, are refused as ambiguous although a
  missing category means S.
- An invoice may be in review without an error among its findings: after a correction whose job could not be
  published, or a KoSIT rejection with warnings only (`docs/api-contract.md:466-467`, `:621`).
- What validation lets through the mapper refuses for five reasons: the unit of a line, the VAT category of a
  line, the seller's tax number, a country code, an electronic address scheme (`KnownGaps`). The reviewer
  sees these only after a generation.
- Stored data that the schema no longer accepts is routed to review, where there is no draft to correct.

*State machine.* The "implemented transition table" of
`docs/architecture.md:333-346` lists UPLOADED to FAILED, which `LEGAL_TRANSITIONS` does not have,
and omits the edges of `failIrrecoverably` (`queue/invoice-state-machine.ts:222-234`), which
consults no table and fails an invoice from either status of the exhausted stage; the model has both sets
(`LegalTransitions`, `ExhaustionEdges`), and the refinement needs both.

## Proofs

### Pipeline

`StagePipelineProofs` and `PipelineSafetyProofs` prove, of `Spec` of StagePipeline and for all
values of `MaxKey`, `Attempts`, `MaxStalls`, `MaxCrashes`, `MaxFaults`, `Faults`, `FirstStage`,
`Repeats` and `BootOrder`:

| Theorem | Property |
|---|---|
| `TypeCorrect` | `TypeOK` |
| `QueuesAlwaysAgree` | `QueuesAgree` |
| `DocumentsAlwaysMatchStatus` | `DocumentsMatchStatus` |
| `PipelineImplementsPromise` | `ImplementsPromise` |
| `StaleWorkIsAlwaysHarmless` | `StaleWorkIsHarmless` |
| `ExhaustedIsAlwaysRecoverable` | `ExhaustedIsRecoverable` |
| `NoInvoiceIsStranded` (with `MaxFaults = 0`) | `NoStrandedInvoice` |

The assumptions are `StoreAssumption` and `PipelineAssumption`: there is at least one key and one
attempt, and every stage is reconciled at some point of the startup.

*The inductive invariant.* `TypeOK` is not inductive: that a job's attempts stay within `Attempts`
needs that a worker only holds a job with an attempt left. `IInv == TypeOK /\ QueuesAgree`
is; the runs check the two halves on instances first (`QueuesAgree` in Stage_crash,
`TypeOK` as part of `ReviewTypeOK` in Review_corrections). Most steps are instances of three patterns, each a lemma: a step that at most adds jobs (`QuietStep`), a worker that goes on
(`WorkKeeps`), and a job that ends (`EndStep`).

*The row.* Whatever the step, what it does to the row is one of a few guarded writes, `RowStep`
(lemma `NextRowStep`). Documents, refinement and staleness then follow from those
writes alone, without looking at queues again.

*Recoverability.* Failed jobs stay failed (`NextKeepsJobs`), dead letters stay
(`NextKeepsLetters`), and whoever exhausts a stage holds its failed job
(`ExhaustionHasFailedJob`, by `QueuesAgree`). Retries, which remove both, are not part of this
specification; see Review for them.

*Nobody stranded.* The hypothesis `MaxFaults = 0` says that no call to Redis fails unless the process dies with it
(crashes stay unbounded). Some such hypothesis is needed. A failing listener of a failed job leaves the invoice to the next
startup. An enqueue that took effect although it threw is taken back in the row while the consumer is still finishing
the job, and the repeated publication is taken for a duplicate; a rejected enqueue runs into the same after a crash, when a
startup publishes for the producer that then takes its step back. Rejected enqueues alone, without a crash, strand
nobody on a small instance; that is not proved.
An invoice can be stranded in two ways, with a failed job that nobody will look at
(`GivenUp`) and with no job that anybody will publish (`Orphaned`); `StageDriven` shows that there is no third.
Neither state says who prevents it, so the invariant is about the way there. `Forward`: no handoff is taken
back; nobody works on a key that the row has not had (`JobsPast`, `ProcessPast`); jobs exist and are about to be
published only for stages that the row has reached (`JobsReached`); and what a worker decided from its copy of
the row is still so, or the worker has moved the row itself, or the row has failed (`ClaimsHold`). Then a step that
enters a stage finds no job of it, old or new (`NextInStage`), so the producer that made the step is still there to publish; a job
that fails leaves a listener or a startup behind (`NextJobs`, `NextWillFail`); and one that ends has moved the row out of its
stage, except where a correction asked for the generation again while its job was finishing: then the `completed`
listener is still to look (`NextCompleting`). `NextGivenUp` and `NextOrphaned` put this together.

### Retention

`RetentionProofs`, of `Spec` of Retention, for any `Uploaders`, `Deleters`, `MaxKey` and `MaxMishaps`
(`RetentionAssumption`: at least one key):

| Theorem | Property |
|---|---|
| `RetentionTypeCorrect` | `RetentionTypeOK` |
| `SourceIsKept` | `SourceKept` |
| `FilesAreAlwaysOwned` | `FilesAreOwned` |
| `MarkedAreGone` | `MarkedIsGone` |
| `LivingIsSpared` | `SparesTheLiving` |

None of them is inductive: a file is erased by an operation that looked at the row several steps
earlier. `IInv` adds what each operation still knows then: `UploadsKnow` (a resurrection holds the
key of the expired row, or that row has gone; a job is enqueued after the file), `DeletionsKnow`,
`SweepKnows` (the markers of a snapshot belong to no row, an expired key stays expired), `MarkedIsGone`
and `Bounded` (keys are handed out once). Each action has a lemma `...Keeps`.

### Review

`ReviewPipelineProofs`, of `ReviewSpec` of ReviewPipeline, for all constants of the pipeline and any
`Reviewers`, `Retriers`, `MaxVersion` and `MaxRetries`:

| Theorem | Property |
|---|---|
| `ReviewTypes` | `ReviewTypeOK` |
| `CorrectionsAreOfWhatWasSeen` | `CorrectsWhatWasSeen` |
| `ReviewKeepsDocuments` | `DocumentsMatchStatus` |
| `ReviewImplementsPromise` | `ImplementsPromise` |
| `OnlyFailedJobsEverStrand` (with `MaxFaults = 0`, `Retriers = {}`) | `OnlyFailedJobsStrand` |
| `RetriedInvoicesAreDriven` (with one retrier, `Reviewers = {}`, `MaxCrashes = 0`, `MaxFaults = 0`, `Repeats = FALSE`) | `NoStrandedReview` |
| `RetriesAlwaysKeepRecoverable` (likewise) | `RetriesKeepRecoverable` |

*The inductive invariant.* `QueuesAgree` does not survive retries: a retry removes a failed job that a listener
is still finalizing. What the types need of it does: `CInv == TypeOK /\ WorkersAgree` speaks of the jobs
that workers hold, and `RInv` adds the types of reviewers and retriers. The lemmas of StagePipelineProofs
are stated for `CInv` and used by both.

*Corrections.* `SeenKnows`: what a tab shows is the row itself, once expired perhaps, or a row of an earlier
version or key. It is kept because a row leaves review only with a new version or key or dead, and
neither number falls (`RowAges`). A correction that hits the row therefore hits the one that was shown.

*Documents and promise.* The requests write the row in three ways (`Correction`, `Return`, `Reopening`); with
`RowStep` of the pipeline these are all writes. Documents need one fact more, that only a row in review has findings
(`FindingsInReview`); the refinement needs nothing but the writes.

*Corrections strand nothing.* A correction brings the row back to GENERATING, possibly while the job that sent it to review is
still finishing. `Forward` survives that (`CorrectionsReach` adds that the row of a request stays where it can be generated),
and so does the absence of an orphan, since the request is about to publish (`Requested`). What does not survive is
the absence of `GivenUp`: a generation job that failed while the invoice was in review keeps its id, and every later
enqueue is taken for its duplicate. The theorem says that this is the only way.

*Retries.* Here the invariant also has to know what a retry finds when it acts, some steps after it looked. `InStep`
relates the parts of one lifecycle: the stage that gave up is known alike by the row, by its failed job and by its listener
(`FailuresAgree`); no later stage was ever asked for (`GaveUpInOrder`); workers are about the stage the row is in
(`WorkersInStep`); a dead letter stands for that very failure, or its retry is past it (`LettersStand`); and
each step of a retry still finds what its first one saw (`RetriesStand`). `LettersOnce` makes the removal of a letter a removal
of all of its stage. All of this was checked by TLC before it was proved. The hypotheses are those of the run
and each is needed: two retries, or a crash between publication and cleanup, leave letters of earlier
failures behind, a delayed upload may enqueue the job that a retry then takes for its own, a rejected republication leaves a reopened row without a job until the user asks again, and with reviewers there are the failed jobs above. The number of retries, lifecycles
and attempts is not bounded.

`LatestDocumentProofs` proves `LatestCorrectionIsGenerated`: `LatestCorrectionGenerated`, for
`Faults \subseteq {"listener"}` and `Retriers = {}`. Both hypotheses are needed. A rejected
enqueue rolls a correction back while the `completed` listener may republish it; an uncertain one is
finding 1; and with several retriers a late `failed` listener may fail the row under a generation that
another retry has claimed, so that the invoice is reopened before it and corrected behind it. The inductive
invariant `LInv` says that nobody takes a handoff back (`NoRollbacks`), that no job, worker or request is ahead of the
row (`JobsPast`, and `WorkPast` of ReviewPipelineProofs), and that a generation worker that has claimed the current row has the
version of the row, or the row is out of its reach (`GenerationKnows`).

### Extraction

`ExtractionProofs`, of `Spec` of Extraction, for any `Attempts`, `MaxCrashes`, `MaxPages`, `Identities`
and `MaxSwitches`:

| Theorem | Property |
|---|---|
| `ExtractionTypes` | `ExtractionTypeOK` |
| `UsableAnswersAreReused` | `NeverPaysTwice` |
| `AcceptedAnswerIsRead` | `ReadsWhatWasAccepted` |
| `VerdictDeserved` | `VerdictIsDeserved` |
| `RetriesNeedReasons` | `RetriesNeedTrouble` |
| `ParserGoneFirst` | `ParserGone` |

*Text.* `TextIInv` says what may still be heard of the parser's thread: nothing before its answer, at most two things after it,
and only what the PDF deserves unless something outside has gone wrong in this attempt
(`NativeKnows`); nothing at all outside the native step (`NativeAtRest`). `OcrKnows`: the pages judged so far are the first ones
and none of them was an obstacle. From these the three action properties follow step by step.

*Data.* `DataIInv` says that the provider is asked only while no answer of this identity is usable
to the running schema (`AskingKnows`), that the last record is the one being judged (`LastKnows`), and that until the
identity returns its records are the last (`SwitchesKnow`).

### Review client

`ReviewClientProofs`, of `Spec` of ReviewClient, for any number of moments, values, visits, failures and polls:

| Theorem | Property |
|---|---|
| `ClientTypes` | `ClientTypeOK` |
| `ChangesAreConfirmed` | `ConfirmedAgainstServer` |
| `NoDeadEndIsSilent` | `NoSilentDeadEnd` |
| `PageGoesForward` | `NeverGoesBack` |
| `TypingIsKept` | `EditsSurvive` |

The inductive invariant `ClientInv` has a part for each thing that must fit another: the history only grows and a
version has one set of data (`HistoryOK`); a thread was started when it says, and at most one of them owns
the status or the detail (`ThreadsOK`); a submission carries what the form had (`SubmitOK`);
what is shown is a moment of the row (`PageOK`); when the form's token is the row's, the form started from the row's data
(`FormFits`); and the page polls, waits or tells (`NotLost`). The two exceptions of `ConfirmedAgainstServer`, `crossed` and `replaced`,
were met as proof steps that could not be taken.

### Rules

`InvoiceRulesProofs`, of `Spec` of InvoiceRules, for all values of `Extracted`, `Corrected`, `Inputs`, `MaxEdits`
and `MaxRows`, where the run has those of MCInvoiceRules:

| Theorem | Property |
|---|---|
| `ValidationSufficesForMapping` | `MapsWhatValidationPasses` |
| `RulesTypes` | `RulesTypeOK` |
| `EveryStopIsExplained` | `StopsAreExplained` |
| `PageRefusesWhatServerRefuses` | `PageAgreesWithServer` |
| `UntouchedFindingsStay` | `UntouchedFindingsRemain` |
| `NumeralsHaveOneKey` | two numerals have one canonical key exactly when they are the same number |
| `CategoriesFollowRates` | `LinesShareTheirBreakdown` |
| `TotalsFollowTheRows` | `TotalsReflectTheRows` |

`RulesAssumption` says that the invoices to start with are stored ones (`IsStored`: of the schema's types,
accepted by it, VAT IDs in one form) and that a reviewer enters what a field can hold (`FitsField`);
`DataAssumption`, that the values for "none" and "refused" are no text, VAT ID or invoice.

- *Mapping.* The invariant says that data in GENERATING is unreadable or passes validation; then, for each part of the
  mapper, a lemma shows that the findings it could make outside `KnownGaps` contradict a rule of the validator.
- *Types.* `TypeInv`: an edit, an added row or a removed one leaves an invoice (`UpdateFits`, `RowsFit`), and what the
  schema makes of an accepted draft is one that may be stored (`ParseStores`).
- *Stops.* `StopsInv` ties findings to who decided: no rule of the generation before the generation has decided, and one afterwards.
- *Page and server.* Each issue of the page, except the warning about a unit price, has a finding that answers
  it (`Answers`), by a lemma for each group of issues; the server sees the data after the schema normalised it, the page before.
- *Untouched findings.* `OriginsInv`: findings are those of the stored data. `RowsInv`: the page knows which lists have other rows.
  `Kept` says what both give for a field called untouched; a lemma for each group of rules
  (`PrecisionRemains` ... `CompletenessRemains`) shows that its errors are found again.
- *Induction.* The library's induction theorems take an operator, which the provers do not instantiate. Its theorem that
  the strict subsets of a finite set are well-founded takes none: `InductionOnSubsets` and `InductionOnNat` follow from it
  and speak of a set that holds whatever follows from its smaller members. With them the recursive definitions are shown to
  define something (`PowersDefined`, `SumsExist`) and their values are computed with.
- *Categories.* `NumeralsHaveOneKey` is the algorithm of `canonicalDecimalKey`: a number written with more places has as many
  zeros more to lose (`MoreZeros`), and the key gives the number back (`KeyTells`). `DocumentInv` says that a document is what
  the mapper makes of data which it does not refuse and which passes validation; lines and breakdown of one number then share
  a category, and a category that the validation found to fit the rate of the breakdown fits that of the line (`SameSign`).
- *Totals.* Rounding is within half a cent (`RoundingIsClose`), the validator allows one more per row and one for the sum;
  `SumsAreClose` adds the bounds up over any number of rows. All amounts are compared in units of the last place that any
  of the exact numbers has, so no precision is assumed.

### Only model-checked

- Liveness under fairness, which is outside the prover: `EventuallySettles`, `RestartRecovers`,
  `EventuallyErased`, `EventuallyDecides`, `EventuallyCurrent`.
- Of invariants and action properties nothing (`RetentionTypeOK` and `ExtractionTypeOK` are proved and part of no
  run); but the theorems on stranding and retries
  (`NoInvoiceIsStranded`, `OnlyFailedJobsEverStrand`, `RetriedInvoicesAreDriven`, `RetriesAlwaysKeepRecoverable`)
  and `LatestCorrectionIsGenerated` have hypotheses on the bounds, given with each above; where these do not hold
  the runs are all there is.

## Plan

Done: Lifecycle, LifecyclePromise, InvoiceStore, StagePipeline, ReviewPipeline, Retention, Extraction,
ReviewClient, InvoiceRules with their runs; the proofs above. In order of importance, left:

1. The two queries of `failIrrecoverably` and `reopenAfterDeadLetter` as separate steps.
2. Retention composed with the dead-letter queues: the removal of dead letters by the sweep and by a deletion.

## Not modelled

- Sessions, HTTP filters, rate limits, health and configuration: they keep no state that these modules share.
- The wording of prompts, the JSON schema sent to a provider and the mock provider.
- The XML, the code tables, and KoSIT itself: only its report matters.
- The removal of dead letters by the sweep and by a deletion (`cleanup/cleanup.service.ts:167-221`): nothing
  these properties speak of reads such an entry any more.
- Rendering, translations, the invoice list and the upload form; the stage shown for a FAILED invoice.
- The evaluation scripts, tests and container files.
