---------------------------- MODULE TextExtraction ----------------------------
(***************************************************************************)
(* The text of a PDF.  A worker thread reads the text layer under a memory *)
(* limit and a timer; when every page has too little of it, pdftocairo and *)
(* tesseract are run on one page after the other under one deadline.       *)
(* Threads and commands answer, fail, exit or hang when they like: every   *)
(* event of theirs that the code listens to is an action.                  *)
(***************************************************************************)
EXTENDS ExtractionJob, FiniteSets

CONSTANT MaxPages   \* bound on the pages of a PDF

ASSUME PagesAssumption == MaxPages \in Nat \ {0}

VARIABLES pdf,       \* the uploaded file
          pc,        \* where the job is
          thread,    \* of the native worker
          events,    \* of the thread, not yet delivered to the job
          settled,   \* the job has its answer
          answer,    \*   and this is it
          command,   \* the OCR command under way
          seen,      \* the pages recognised so far
          troubled   \* history: attempts the environment interfered with

textVars == <<pdf, pc, thread, events, settled, answer, command, seen, troubled>>
vars == <<jobVars, textVars>>

-------------------------------------------------------------------------------
(* What the code tells apart in a page: enough text in its text layer, or  *)
(* what OCR makes of it.  "long" is clear and alone over the text limit,   *)
(* "huge" rasters past the output limit, "damaged" makes pdftocairo give   *)
(* up with one of its deterministic exit codes.                            *)
Page == {"text", "clear", "blurred", "blank", "long", "huge", "damaged"}

(* What the parser makes of the file as a whole.                           *)
Refusal == {"pdf_unreadable", "pdf_resource_limit",
            "pdf_too_many_pages", "text_too_long"}

Pdf == [parse : Refusal, pages : {<<>>}]
         \cup [parse : {"pages"},
               pages : UNION {[1 .. n -> Page] : n \in 0 .. MaxPages}]

NoPdf == [parse |-> "pages", pages |-> <<>>]

(* The verdict that a PDF deserves, whatever goes wrong on the way.        *)
FirstObstacle(p) ==
    LET bad == {i \in DOMAIN p : p[i] \in {"huge", "damaged"}}
    IN  IF bad = {} THEN "none"
        ELSE IF p[CHOOSE i \in bad : \A j \in bad : i <= j] = "huge"
             THEN "pdf_resource_limit" ELSE "pdf_unreadable"

Quality(p) ==
    LET content == {p[i] : i \in DOMAIN p} \ {"blank"}
    IN  CASE content = {} -> "ocr_text_too_sparse"
          [] "blurred" \in content -> "ocr_confidence_too_low"
          [] "blurred" \notin content /\ "long" \in content -> "text_too_long"
          [] OTHER -> "ready"

Verdict(d) ==
    IF d.parse # "pages" THEN d.parse
    ELSE IF d.pages = <<>> THEN "pdf_no_pages"
    ELSE IF \E i \in DOMAIN d.pages : d.pages[i] = "text" THEN "ready"
    ELSE IF FirstObstacle(d.pages) # "none" THEN FirstObstacle(d.pages)
    ELSE Quality(d.pages)

-------------------------------------------------------------------------------
Answer == Refusal \cup {"pages", "retry", "none"}

TextTypeOK ==
    /\ JobTypeOK
    /\ pdf \in Pdf
    /\ pc \in {"waiting", "native", "ocr", "done"}
    /\ thread \in {"none", "running", "ending", "over"}
    /\ events \in UNION {[1 .. n -> Answer \cup {"exit"}] : n \in 0 .. 3}
    /\ settled \in BOOLEAN
    /\ answer \in Answer
    /\ command \in {"none", "pdftocairo", "tesseract"}
    /\ seen \in UNION {[1 .. n -> Page] : n \in 0 .. MaxPages}
    /\ troubled \subseteq 1 .. Attempts

TextInit ==
    /\ JobInit
    /\ pdf \in Pdf
    /\ pc = "waiting"
    /\ thread = "none" /\ events = <<>>
    /\ settled = FALSE /\ answer = "none"
    /\ command = "none" /\ seen = <<>>
    /\ troubled = {}

Trouble == troubled' = troubled \cup {attempt}

Working(at) == status = "EXTRACTING_TEXT" /\ pc = at

(* The job ends, and the file is not read again, or starts over from it.   *)
Reset(at) == /\ pc' = at
             /\ thread' = "none" /\ events' = <<>>
             /\ settled' = FALSE /\ answer' = "none"
             /\ command' = "none" /\ seen' = <<>>
             /\ pdf' = IF at = "done" THEN NoPdf ELSE pdf

Conclude(verdict) ==
    /\ IF verdict = "ready" THEN Advance("EXTRACTING_DATA") ELSE Fail(verdict)
    /\ Reset("done")
    /\ troubled' = {}

Throw ==
    /\ TryAgain("text_extraction_retries_exhausted")
    /\ Reset(IF attempt < Attempts THEN "waiting" ELSE "done")

(* Reads the file and starts the thread.                                   *)
StartText ==
    /\ Working("waiting")
    /\ IF live
       THEN \/ /\ pc' = "native" /\ thread' = "running"
               /\ UNCHANGED <<jobVars, pdf, events, settled, answer, command,
                              seen, troubled>>
            \/ Throw /\ Trouble
       ELSE Reset("done") /\ UNCHANGED <<jobVars, troubled>>

-------------------------------------------------------------------------------
(* The thread: extractPdfText and pdf-text.worker.                         *)

Raise(es, next) ==
    /\ events' = events \o es
    /\ thread' = next
    /\ UNCHANGED <<jobVars, pdf, pc, settled, answer, command, seen>>

Undisturbed == Working("native") /\ ~settled

(* One message; the parser is destroyed after it.  A parser over the limit *)
(* of its memory is ended with an error instead.                           *)
ThreadAnswers ==
    /\ Working("native") /\ thread = "running"
    /\ IF pdf.parse = "pdf_resource_limit"
       THEN Raise(<<"pdf_resource_limit", "exit">>, "over")
       ELSE Raise(<<pdf.parse>>, "ending")
    /\ UNCHANGED troubled

ThreadEnds ==
    /\ Working("native") /\ thread = "ending"
    /\ Raise(<<"exit">>, "over")
    /\ UNCHANGED troubled

(* An answer of the wrong shape, an uncaught error (also after the answer, *)
(* while the parser is destroyed) or an exit.                              *)
ThreadFails ==
    /\ Working("native")
    /\ \/ thread = "running" /\ Raise(<<"retry">>, "ending") /\ Trouble
       \/ thread = "running" /\ Raise(<<"exit">>, "over") /\ Trouble
       \/ thread \in {"running", "ending"} /\ Raise(<<"retry", "exit">>, "over")
          /\ IF thread = "running" THEN Trouble ELSE UNCHANGED troubled

(* A bug: the exit of a thread that was terminated rejects the promise.    *)
ListenerHearsExit ==
    /\ Working("native") /\ events # <<>>
    /\ events' = Tail(events)
    /\ answer' = IF Head(events) = "exit" THEN "retry"
                 ELSE IF settled THEN answer ELSE Head(events)
    /\ settled' = TRUE
    /\ UNCHANGED <<jobVars, pdf, pc, thread, command, seen, troubled>>

(* The first event settles the promise, and has the thread terminated.     *)
Listener ==
    /\ Working("native") /\ events # <<>>
    /\ events' = Tail(events)
    /\ settled' = TRUE
    /\ answer' = CASE settled -> answer
                   [] ~settled /\ Head(events) = "exit" -> "retry"
                   [] OTHER -> Head(events)
    /\ UNCHANGED <<jobVars, pdf, pc, thread, command, seen, troubled>>

(* A bug: the thread is left to itself when its time is up.                *)
NativeForgets ==
    /\ Undisturbed
    /\ Trouble
    /\ Throw

(* A bug: the timer is only set when the thread has answered.              *)
TimerAfterAnswer ==
    /\ Undisturbed /\ thread = "ending"
    /\ settled' = TRUE /\ answer' = "retry"
    /\ Trouble
    /\ UNCHANGED <<jobVars, pdf, pc, thread, events, command, seen>>

NativeTimeout ==
    /\ Undisturbed
    /\ settled' = TRUE /\ answer' = "retry"
    /\ Trouble
    /\ UNCHANGED <<jobVars, pdf, pc, thread, events, command, seen>>

Terminate ==
    /\ Working("native") /\ settled /\ thread # "over"
    /\ Raise(<<"exit">>, "over")
    /\ UNCHANGED troubled

HasText == \E i \in DOMAIN pdf.pages : pdf.pages[i] = "text"

(* terminate() has resolved: the answer goes to the processor, which looks *)
(* at the text layer and may turn to OCR.                                  *)
NativeAnswers ==
    /\ Working("native") /\ settled /\ thread = "over" /\ events = <<>>
    /\ CASE answer = "retry" -> Throw /\ UNCHANGED troubled
         [] answer \in Refusal -> Conclude(answer)
         [] answer = "pages" /\ pdf.pages = <<>> -> Conclude("pdf_no_pages")
         [] answer = "pages" /\ HasText -> Conclude("ready")
         [] OTHER ->
                /\ pc' = "ocr" /\ command' = "pdftocairo"
                /\ thread' = "none" /\ settled' = FALSE /\ answer' = "none"
                /\ UNCHANGED <<jobVars, pdf, events, seen, troubled>>

-------------------------------------------------------------------------------
(* OCR: a page is rendered, then recognised.  What a settled command still *)
(* emits finds its promise settled and has no effect.                      *)

CurrentPage == pdf.pages[Len(seen) + 1]

Running(c) == Working("ocr") /\ command = c

Render ==
    /\ Running("pdftocairo")
    /\ \/ /\ CurrentPage \notin {"huge", "damaged"}
          /\ command' = "tesseract"
          /\ UNCHANGED <<jobVars, pdf, pc, thread, events, settled, answer,
                         seen, troubled>>
       \/ CurrentPage = "huge" /\ Conclude("pdf_resource_limit")
       \/ CurrentPage = "damaged" /\ Conclude("pdf_unreadable")

Recognise ==
    /\ Running("tesseract")
    /\ seen' = Append(seen, CurrentPage)
    /\ command' = IF Len(seen') < Len(pdf.pages) THEN "pdftocairo" ELSE "none"
    /\ UNCHANGED <<jobVars, pdf, pc, thread, events, settled, answer, troubled>>

(* Any other exit code, a failing spawn, a broken pipe, which may beat the *)
(* exit of a command that reads only part of its input, or the deadline,   *)
(* before the command or during it.                                        *)
CommandFails ==
    /\ Working("ocr") /\ command # "none"
    /\ Throw
    /\ Trouble

(* parseTesseractTsv: an empty table, a column that is missing or a field  *)
(* that is no number are a failure of the engine and no blank page.        *)
Unreadable ==
    /\ Running("tesseract")
    /\ Throw
    /\ Trouble

(* A bug: the confidence is that of all pages, the blank ones included.    *)
JudgeEveryPage ==
    /\ Running("none")
    /\ Conclude(IF \A i \in DOMAIN seen : seen[i] = "blank"
                THEN "ocr_text_too_sparse"
                ELSE IF \E i \in DOMAIN seen : seen[i] \in {"blurred", "blank"}
                THEN "ocr_confidence_too_low"
                ELSE IF \E i \in DOMAIN seen : seen[i] = "long"
                THEN "text_too_long" ELSE "ready")

(* extractByOcr: the pages with content decide.                            *)
JudgePages ==
    /\ Running("none")
    /\ LET content == {i \in DOMAIN seen : seen[i] # "blank"}
       IN  \/ content = {} /\ Conclude("ocr_text_too_sparse")
           \/ /\ \E i \in content : seen[i] = "blurred"
              /\ Conclude("ocr_confidence_too_low")
           \/ /\ content # {} /\ \A i \in content : seen[i] # "blurred"
              /\ Conclude(IF \E i \in content : seen[i] = "long"
                          THEN "text_too_long" ELSE "ready")

TextDies == /\ status = "EXTRACTING_TEXT" /\ pc # "done"
            /\ Die
            /\ Reset("waiting")
            /\ UNCHANGED troubled

TextDisappears == Disappear /\ status = "EXTRACTING_TEXT" /\ UNCHANGED textVars

(* Every wait of the job is one for a timer, or for the system to end what *)
(* was terminated: a thread or a command need never answer.                *)
TextTimely == \/ StartText \/ Listener \/ NativeTimeout \/ Terminate
              \/ NativeAnswers \/ CommandFails \/ JudgePages

TextNext == \/ TextTimely
            \/ ThreadAnswers \/ ThreadEnds \/ ThreadFails
            \/ Render \/ Recognise \/ Unreadable
            \/ TextDies \/ TextDisappears

-------------------------------------------------------------------------------
(* What becomes of an invoice is what its PDF deserves, in whatever order  *)
(* threads, commands and timers speak, or that its retries are exhausted.  *)
VerdictIsDeserved ==
    [][/\ Working(pc) /\ status' = "EXTRACTING_DATA" => Verdict(pdf) = "ready"
       /\ Working(pc) /\ status' = "FAILED" =>
              code' \in {Verdict(pdf), "text_extraction_retries_exhausted"}]_vars

(* A retry needs a reason outside the PDF: the answer of a thread is never *)
(* lost to what the same thread or its timer does afterwards.              *)
RetriesNeedTrouble ==
    [][attempt' # attempt /\ status' = "EXTRACTING_TEXT" =>
           attempt \in troubled']_vars

(* No thread is left running beside the next step: the job goes on only    *)
(* when its parser, and the memory it may take, is gone.                   *)
ParserGone ==
    [][Working("native") /\ (pc' # "native" \/ attempt' # attempt)
           => thread = "over" \/ crashes' # crashes]_vars
===============================================================================
